---------------------------- MODULE Spec2Model ----------------------------
(***************************************************************************)
(* A model of the Arrow foreign-data engine of pg-strom                    *)
(* (src/next/arrow_fdw.c): the min/max statistics binder, the record-batch *)
(* state builder, the shared metadata cache with its slab allocator, and   *)
(* the scan driver that hands out record batches.                          *)
(*                                                                         *)
(* Integers of the program that are wider than TLC's are kept to the       *)
(* widths TLC can compute (8 and 16 bit columns are exact; wider columns   *)
(* are only given values far from their limits).                           *)
(***************************************************************************)
EXTENDS Integers, Sequences, FiniteSets, TLC

\* A pointer is the empty sequence (NULL) or a sequence of the one value
\* it points to.
NULL == <<>>
Ptr(x) == <<x>>
Deref(p) == p[1]

Min(a, b) == IF a <= b THEN a ELSE b

RECURSIVE Pow2(_)
Pow2(n) == IF n = 0 THEN 1 ELSE 2 * Pow2(n - 1)

Range(s) == {s[i] : i \in 1..Len(s)}

RECURSIVE SeqConcat(_)
SeqConcat(ss) == IF ss = <<>> THEN <<>> ELSE Head(ss) \o SeqConcat(Tail(ss))

(***************************************************************************)
(* Part 1.  Statistics binder: min_values / max_values custom metadata     *)
(***************************************************************************)

\* A metadata value is a C string, modelled as a sequence of characters.
Digits == {"0", "1", "2", "3", "4", "5", "6", "7", "8", "9"}

DigitVal(c) ==
    CASE c = "0" -> 0 [] c = "1" -> 1 [] c = "2" -> 2 [] c = "3" -> 3
      [] c = "4" -> 4 [] c = "5" -> 5 [] c = "6" -> 6 [] c = "7" -> 7
      [] c = "8" -> 8 [] c = "9" -> 9

isdigit(c) == c \in Digits

\* the while (isdigit(*tok)) loop: <<ival, position of the first non-digit>>
RECURSIVE __atoi128_digits(_, _, _)
__atoi128_digits(tok, pos, ival) ==
    IF pos <= Len(tok) /\ isdigit(tok[pos])
    THEN __atoi128_digits(tok, pos + 1, 10 * ival + DigitVal(tok[pos]))
    ELSE <<ival, pos>>

\* __atoi128(tok, &isnull): the value, and whether *p_isnull was set
__atoi128(tok) ==
    LET is_minus == Len(tok) > 0 /\ tok[1] = "-"
        Scanned(r) ==
            [ival   |-> IF is_minus THEN 0 - r[1] ELSE r[1],
             isnull |-> (r[2] <= Len(tok)) \/ (is_minus /\ r[1] = 0)]
    IN  Scanned(__atoi128_digits(tok, IF is_minus THEN 2 ELSE 1, 0))

\* __trim(tok): strips the white space around a token
RECURSIVE __trim_head(_)
__trim_head(tok) ==
    IF tok # <<>> /\ Head(tok) = " " THEN __trim_head(Tail(tok)) ELSE tok

RECURSIVE __trim_tail(_)
__trim_tail(tok) ==
    IF tok # <<>> /\ tok[Len(tok)] = " "
    THEN __trim_tail(SubSeq(tok, 1, Len(tok) - 1)) ELSE tok

__trim(tok) == __trim_tail(__trim_head(tok))

\* all the tokens strtok_r(buf, ",", &pos) hands out: the non-empty runs
\* of characters between commas
RECURSIVE strtok_r(_, _, _)
strtok_r(buf, pos, cur) ==
    IF pos > Len(buf)
    THEN IF cur = <<>> THEN <<>> ELSE <<cur>>
    ELSE IF buf[pos] = ","
         THEN (IF cur = <<>> THEN <<>> ELSE <<cur>>) \o strtok_r(buf, pos + 1, <<>>)
         ELSE strtok_r(buf, pos + 1, Append(cur, buf[pos]))

Tokens(buf) == strtok_r(buf, 1, <<>>)

\* memcpy(dst, &int128, unitsz) followed by a read of the signed member of
\* SQLstat__datum of the same width: the low unitsz bytes, sign-extended.
\* Widths of 4 bytes and more are beyond TLC's integers; the model only
\* gives them values they hold unchanged.
WrapSigned(v, unitsz) ==
    IF unitsz >= 4 THEN v
    ELSE LET m == Pow2(8 * unitsz)
             u == v % m
         IN  IF u >= m \div 2 THEN u - m ELSE u

\* the switch on field->type.node.tag of __parseArrowFieldStatsBinary:
\* the unit size of a statistics datum, -1 for a type without statistics
StatsUnitSize(field) ==
    CASE field.tag = "Int" ->
            (CASE field.bitWidth = 8  -> 1
               [] field.bitWidth = 16 -> 2
               [] field.bitWidth = 32 -> 4
               [] field.bitWidth = 64 -> 8
               [] OTHER -> -1)
      [] field.tag = "FloatingPoint" ->
            (CASE field.precision = "Half"   -> 2
               [] field.precision = "Single" -> 4
               [] field.precision = "Double" -> 8
               [] OTHER -> -1)
      [] field.tag = "Decimal" -> 16
      [] field.tag = "Date" ->
            (CASE field.unit = "Day" -> 4
               [] field.unit = "MilliSecond" -> 8
               [] OTHER -> -1)
      [] field.tag = "Time" ->
            (CASE field.unit \in {"Second", "MilliSecond"} -> 4
               [] field.unit \in {"MicroSecond", "NanoSecond"} -> 8
               [] OTHER -> -1)
      [] field.tag = "Timestamp" ->
            (CASE field.unit \in {"Second", "MilliSecond",
                                  "MicroSecond", "NanoSecond"} -> 8
               [] OTHER -> -1)
      [] OTHER -> -1

\* one iteration of the token loop: the slot of batch `index`
ParseStatsSlot(unitsz, tok1, tok2) ==
    LET Slot(__min, __max) ==
            IF __min.isnull \/ __max.isnull
            THEN [isnull |-> TRUE, min |-> 0, max |-> 0]
            ELSE [isnull |-> FALSE,
                  min |-> WrapSigned(__min.ival, unitsz),
                  max |-> WrapSigned(__max.ival, unitsz)]
    IN  Slot(__atoi128(__trim(tok1)), __atoi128(__trim(tok2)))

\* __parseArrowFieldStatsBinary: FALSE, or the three arrays of nrooms slots
__parseArrowFieldStatsBinary(nrooms, field, min_tokens, max_tokens) ==
    LET Filled(unitsz, slots) ==
            [ok |-> TRUE, unitsz |-> unitsz,
             isnull     |-> [i \in 1..nrooms |-> slots[i].isnull],
             min_values |-> [i \in 1..nrooms |-> slots[i].min],
             max_values |-> [i \in 1..nrooms |-> slots[i].max]]
        \* the loop stops at the first missing token or at nrooms
        Parsed(unitsz, toks1, toks2, index) ==
            IF unitsz < 0 THEN [ok |-> FALSE]
            ELSE IF Len(toks1) = index /\ Len(toks2) = index /\ index = nrooms
            THEN Filled(unitsz, [i \in 1..index |->
                                    ParseStatsSlot(unitsz, toks1[i], toks2[i])])
            ELSE [ok |-> FALSE]
        Tokenized(toks1, toks2) ==
            Parsed(StatsUnitSize(field), toks1, toks2,
                   Min(Min(Len(toks1), Len(toks2)), nrooms))
    IN  Tokenized(Tokens(min_tokens), Tokens(max_tokens))

NoFieldStats(nrooms) ==
    [nrooms |-> nrooms, unitsz |-> -1, isnull |-> NULL,
     min_values |-> NULL, max_values |-> NULL]

\* __buildArrowFieldStatsBinary for one field, without its sub-fields
FieldStatsOwn(field, numRecordBatches) ==
    IF field.min_values # NULL /\ field.max_values # NULL
    THEN LET Parsed(r) ==
                 IF r.ok
                 THEN [nrooms |-> numRecordBatches, unitsz |-> r.unitsz,
                       isnull |-> Ptr(r.isnull),
                       min_values |-> Ptr(r.min_values),
                       max_values |-> Ptr(r.max_values)]
                 ELSE NoFieldStats(numRecordBatches)
         IN  Parsed(__parseArrowFieldStatsBinary(numRecordBatches, field,
                                                 Deref(field.min_values),
                                                 Deref(field.max_values)))
    ELSE NoFieldStats(numRecordBatches)

FieldStatsFound(field, numRecordBatches) ==
    FieldStatsOwn(field, numRecordBatches).unitsz > 0

\* __buildArrowFieldStatsBinary: the field's own slots and those of its
\* children (fields nest one level: List and Struct are refused below depth 0)
__buildArrowFieldStatsBinary(field, numRecordBatches) ==
    [own       |-> FieldStatsOwn(field, numRecordBatches),
     nfields   |-> Len(field.children),
     subfields |-> [j \in 1..Len(field.children) |->
                      [own       |-> FieldStatsOwn(field.children[j], numRecordBatches),
                       nfields   |-> 0,
                       subfields |-> <<>>]]]

\* buildArrowStatsBinary: NULL when no field of the schema (nor a child)
\* carries usable statistics
buildArrowStatsBinary(footer) ==
    LET nfields == Len(footer.schema)
        found   == \E j \in 1..nfields :
                      \/ FieldStatsFound(footer.schema[j], footer.num_recordBatches)
                      \/ \E k \in 1..Len(footer.schema[j].children) :
                            FieldStatsFound(footer.schema[j].children[k],
                                            footer.num_recordBatches)
    IN  IF ~found THEN NULL
        ELSE Ptr([nitems  |-> footer.num_recordBatches,
                  nfields |-> nfields,
                  fields  |-> [j \in 1..nfields |->
                                 __buildArrowFieldStatsBinary(footer.schema[j],
                                                              footer.num_recordBatches)]])

\* the test of __applyArrowFieldStatsBinary that decides whether the slot
\* of the field is copied
StatsUsable(own) ==
    /\ own.unitsz > 0
    /\ own.isnull # NULL
    /\ own.min_values # NULL
    /\ own.max_values # NULL

\* __applyArrowFieldStatsBinary on the field itself; rb_index counts from 0
ApplyFieldStatsOwn(fstate, own, rb_index) ==
    IF StatsUsable(own)
    THEN [fstate EXCEPT !.stat_min = Deref(own.min_values)[rb_index + 1],
                        !.stat_max = Deref(own.max_values)[rb_index + 1],
                        !.stat_isnull = FALSE]
    ELSE [fstate EXCEPT !.stat_min = 0, !.stat_max = 0, !.stat_isnull = TRUE]

__applyArrowFieldStatsBinary(fstate, bstats, rb_index) ==
    [ApplyFieldStatsOwn(fstate, bstats.own, rb_index) EXCEPT !.children =
            [j \in 1..Len(fstate.children) |->
                ApplyFieldStatsOwn(fstate.children[j],
                                   bstats.subfields[j].own, rb_index)]]

applyArrowStatsBinary(rb_state, arrow_bstats) ==
    [rb_state EXCEPT !.fields =
        [j \in 1..rb_state.nfields |->
            __applyArrowFieldStatsBinary(rb_state.fields[j],
                                         arrow_bstats.fields[j],
                                         rb_state.rb_index)]]

(***************************************************************************)
(* Part 2.  Record-batch state builder                                     *)
(***************************************************************************)

MAXIMUM_ALIGNOF == 8

\* an alignment that rounds nothing
MaxAlign_Identity(x) == x

MAXALIGN(x) == ((x + MAXIMUM_ALIGNOF - 1) \div MAXIMUM_ALIGNOF) * MAXIMUM_ALIGNOF

BITMAPLEN(n) == (n + 7) \div 8

\* an ArrowField of the schema; sub is the sub-selector of its tag
\* (bitWidth, precision, unit or byteWidth)
ArrowField(tag, sub, children, min_values, max_values) ==
    [tag |-> tag, bitWidth |-> sub, precision |-> sub, unit |-> sub,
     byteWidth |-> sub, timezone |-> FALSE, children |-> children,
     min_values |-> min_values, max_values |-> max_values]

InvalidOid == "InvalidOid"

\* get_array_type: the array type over an element type of the model
get_array_type(typid) ==
    CASE typid = "int1" -> "_int1" [] typid = "int2" -> "_int2"
      [] typid = "int4" -> "_int4" [] typid = "int8" -> "_int8"
      [] typid = "float2" -> "_float2" [] typid = "float4" -> "_float4"
      [] typid = "float8" -> "_float8" [] typid = "bool" -> "_bool"
      [] typid = "numeric" -> "_numeric" [] typid = "date" -> "_date"
      [] typid = "time" -> "_time" [] typid = "timestamp" -> "_timestamp"
      [] typid = "timestamptz" -> "_timestamptz"
      [] typid = "interval" -> "_interval"
      [] typid = "text" -> "_text" [] typid = "bytea" -> "_bytea"
      [] OTHER -> InvalidOid

\* palloc0 of a RecordBatchFieldState
ZeroFieldState ==
    [atttypid |-> InvalidOid, atttypmod |-> 0,
     attopts |-> [tag |-> "None", unitsz |-> 0, sub |-> 0],
     nitems |-> 0, null_count |-> 0,
     nullmap_offset |-> 0, nullmap_length |-> 0,
     values_offset |-> 0, values_length |-> 0,
     extra_offset |-> 0, extra_length |-> 0,
     stat_min |-> 0, stat_max |-> 0, stat_isnull |-> FALSE,
     num_children |-> 0, children |-> <<>>]

\* __assignRecordBatchFieldStateBuffer: consumes the buffers of one field
\* from the cursor con.bpos (the index of buffer_curr) and checks them
__assignRecordBatchFieldStateBuffer(fstate, con, has_extra) ==
    LET nbuf == Len(con.buffers)
        \* nullmap
        b1   == con.bpos
        e1   == b1 > nbuf
        f1   == IF ~e1 /\ fstate.null_count > 0
                THEN [fstate EXCEPT !.nullmap_offset = con.buffers[b1].offset,
                                    !.nullmap_length = con.buffers[b1].length]
                ELSE fstate
        e1b  == /\ ~e1 /\ fstate.null_count > 0
                /\ \/ f1.nullmap_length < BITMAPLEN(fstate.nitems)
                   \/ f1.nullmap_offset # MAXALIGN(f1.nullmap_offset)
        \* values
        hasv == fstate.attopts.unitsz # 0
        least_length ==
                IF fstate.attopts.unitsz < 0 THEN BITMAPLEN(fstate.nitems)
                ELSE IF ~has_extra THEN fstate.attopts.unitsz * fstate.nitems
                ELSE fstate.attopts.unitsz * (fstate.nitems + 1)
        b2   == b1 + 1
        e2   == hasv /\ b2 > nbuf
        f2   == IF hasv /\ ~e2
                THEN [f1 EXCEPT !.values_offset = con.buffers[b2].offset,
                                !.values_length = con.buffers[b2].length]
                ELSE f1
        e2b  == /\ hasv /\ ~e2
                /\ \/ f2.values_length < MAXALIGN(least_length)
                   \/ f2.values_offset # MAXALIGN(f2.values_offset)
        \* extra
        b3   == IF hasv THEN b2 + 1 ELSE b2
        e3   == has_extra /\ b3 > nbuf
        f3   == IF has_extra /\ ~e3
                THEN [f2 EXCEPT !.extra_offset = con.buffers[b3].offset,
                                !.extra_length = con.buffers[b3].length]
                ELSE f2
        e3b  == /\ has_extra /\ ~e3
                /\ f3.extra_offset # MAXALIGN(f3.extra_offset)
        used == 1 + (IF hasv THEN 1 ELSE 0) + (IF has_extra THEN 1 ELSE 0)
    IN  IF e1 \/ e1b \/ e2 \/ e2b \/ e3 \/ e3b
        THEN [err |-> TRUE, fstate |-> fstate, con |-> con]
        ELSE [err |-> FALSE, fstate |-> f3,
              con |-> [con EXCEPT !.bpos = con.bpos + used]]

\* arrowFieldGetPGTypeHint: the type named by the "pg_type" custom
\* metadata of the field, InvalidOid without it
arrowFieldGetPGTypeHint(field) ==
    IF "pg_type" \in DOMAIN field THEN field.pg_type ELSE InvalidOid

BLCKSZ == 8192

VARHDRSZ == 4

\* the FixedSizeBinary case of the switch
FixedSizeBinaryBinding(t, hint_oid) ==
    IF t.byteWidth <= 0 \/ t.byteWidth > BLCKSZ
    THEN [ok |-> FALSE]
    ELSE IF hint_oid = "macaddr" /\ t.byteWidth = 6
    THEN [ok |-> TRUE, unitsz |-> t.byteWidth, atttypid |-> "macaddr",
          atttypmod |-> -1, has_extra |-> FALSE]
    ELSE IF hint_oid = "inet" /\ (t.byteWidth = 4 \/ t.byteWidth = 16)
    THEN [ok |-> TRUE, unitsz |-> t.byteWidth, atttypid |-> "inet",
          atttypmod |-> -1, has_extra |-> FALSE]
    ELSE [ok |-> TRUE, unitsz |-> t.byteWidth, atttypid |-> "bytea",
          atttypmod |-> VARHDRSZ + t.byteWidth, has_extra |-> FALSE]

\* the switch of __buildRecordBatchFieldState for the tags without
\* children: unit size, bound type, type modifier, extra buffer
ScalarTypeBinding(t) ==
    CASE t.tag = "Int" ->
            (CASE t.bitWidth = 8  -> [ok |-> TRUE, unitsz |-> 1, atttypid |-> "int1", atttypmod |-> -1, has_extra |-> FALSE]
               [] t.bitWidth = 16 -> [ok |-> TRUE, unitsz |-> 2, atttypid |-> "int2", atttypmod |-> -1, has_extra |-> FALSE]
               [] t.bitWidth = 32 -> [ok |-> TRUE, unitsz |-> 4, atttypid |-> "int4", atttypmod |-> -1, has_extra |-> FALSE]
               [] t.bitWidth = 64 -> [ok |-> TRUE, unitsz |-> 8, atttypid |-> "int8", atttypmod |-> -1, has_extra |-> FALSE]
               [] OTHER -> [ok |-> FALSE])
      [] t.tag = "FloatingPoint" ->
            (CASE t.precision = "Half"   -> [ok |-> TRUE, unitsz |-> 2, atttypid |-> "float2", atttypmod |-> -1, has_extra |-> FALSE]
               [] t.precision = "Single" -> [ok |-> TRUE, unitsz |-> 4, atttypid |-> "float4", atttypmod |-> -1, has_extra |-> FALSE]
               [] t.precision = "Double" -> [ok |-> TRUE, unitsz |-> 8, atttypid |-> "float8", atttypmod |-> -1, has_extra |-> FALSE]
               [] OTHER -> [ok |-> FALSE])
      [] t.tag = "Bool" -> [ok |-> TRUE, unitsz |-> -1, atttypid |-> "bool", atttypmod |-> -1, has_extra |-> FALSE]
      [] t.tag = "Decimal" ->
            IF t.bitWidth # 128 THEN [ok |-> FALSE]
            ELSE [ok |-> TRUE, unitsz |-> 16, atttypid |-> "numeric", atttypmod |-> -1, has_extra |-> FALSE]
      [] t.tag = "Date" ->
            (CASE t.unit = "Day"         -> [ok |-> TRUE, unitsz |-> 4, atttypid |-> "date", atttypmod |-> -1, has_extra |-> FALSE]
               [] t.unit = "MilliSecond" -> [ok |-> TRUE, unitsz |-> 4, atttypid |-> "date", atttypmod |-> -1, has_extra |-> FALSE]
               [] OTHER -> [ok |-> FALSE])
      [] t.tag = "Time" ->
            (CASE t.unit \in {"Second", "MilliSecond"} ->
                    [ok |-> TRUE, unitsz |-> 4, atttypid |-> "time", atttypmod |-> -1, has_extra |-> FALSE]
               [] t.unit \in {"MicroSecond", "NanoSecond"} ->
                    [ok |-> TRUE, unitsz |-> 8, atttypid |-> "time", atttypmod |-> -1, has_extra |-> FALSE]
               [] OTHER -> [ok |-> FALSE])
      [] t.tag = "Timestamp" ->
            IF t.unit \in {"Second", "MilliSecond", "MicroSecond", "NanoSecond"}
            THEN [ok |-> TRUE, unitsz |-> 8,
                  atttypid |-> IF t.timezone THEN "timestamptz" ELSE "timestamp",
                  atttypmod |-> -1, has_extra |-> FALSE]
            ELSE [ok |-> FALSE]
      [] t.tag = "Interval" ->
            (CASE t.unit = "Year_Month" -> [ok |-> TRUE, unitsz |-> 4, atttypid |-> "interval", atttypmod |-> -1, has_extra |-> FALSE]
               [] t.unit = "Day_Time"   -> [ok |-> TRUE, unitsz |-> 8, atttypid |-> "interval", atttypmod |-> -1, has_extra |-> FALSE]
               [] OTHER -> [ok |-> FALSE])
      [] t.tag = "FixedSizeBinary" ->
            FixedSizeBinaryBinding(t, arrowFieldGetPGTypeHint(t))
      [] t.tag = "Utf8"        -> [ok |-> TRUE, unitsz |-> 4, atttypid |-> "text",  atttypmod |-> -1, has_extra |-> TRUE]
      [] t.tag = "LargeUtf8"   -> [ok |-> TRUE, unitsz |-> 8, atttypid |-> "text",  atttypmod |-> -1, has_extra |-> TRUE]
      [] t.tag = "Binary"      -> [ok |-> TRUE, unitsz |-> 4, atttypid |-> "bytea", atttypmod |-> -1, has_extra |-> TRUE]
      [] t.tag = "LargeBinary" -> [ok |-> TRUE, unitsz |-> 8, atttypid |-> "bytea", atttypmod |-> -1, has_extra |-> TRUE]
      [] OTHER -> [ok |-> FALSE]

\* the head of __buildRecordBatchFieldState: takes one ArrowFieldNode
FieldStateOfNode(fnode) ==
    [ZeroFieldState EXCEPT !.atttypid = InvalidOid, !.atttypmod = -1,
                           !.nitems = fnode.length,
                           !.null_count = fnode.null_count,
                           !.stat_isnull = TRUE]

\* a field without children
BuildScalarFieldState(con, field) ==
    LET Bound(bind) ==
            IF con.fpos > Len(con.nodes) \/ ~bind.ok
            THEN [err |-> TRUE, fstate |-> ZeroFieldState, con |-> con]
            ELSE __assignRecordBatchFieldStateBuffer(
                    [FieldStateOfNode(con.nodes[con.fpos]) EXCEPT
                        !.atttypid = bind.atttypid,
                        !.atttypmod = bind.atttypmod,
                        !.attopts = [tag |-> field.tag, unitsz |-> bind.unitsz,
                                     sub |-> field.bitWidth]],
                    [con EXCEPT !.fpos = con.fpos + 1],
                    bind.has_extra)
    IN  Bound(ScalarTypeBinding(field))

\* the children of a List or Struct, left to right (they are at depth 1,
\* where a further List or Struct is refused)
RECURSIVE BuildChildren(_, _, _, _)
BuildChildren(con, fields, j, acc) ==
    IF j > Len(fields) THEN [err |-> FALSE, children |-> acc, con |-> con]
    ELSE IF fields[j].tag \in {"List", "LargeList", "Struct"}
    THEN [err |-> TRUE, children |-> acc, con |-> con]
    ELSE LET Built(r) ==
                 IF r.err THEN [err |-> TRUE, children |-> acc, con |-> con]
                 ELSE BuildChildren(r.con, fields, j + 1, Append(acc, r.fstate))
         IN  Built(BuildScalarFieldState(con, fields[j]))

\* a List (one child) or a Struct: the field's own buffers, then its children
BuildNestedFieldState(con, field, unitsz) ==
    LET WithChildren(r1, r2) ==
            IF r1.err \/ r2.err
            THEN [err |-> TRUE, fstate |-> ZeroFieldState, con |-> con]
            ELSE [err |-> FALSE, con |-> r2.con,
                  fstate |-> [r1.fstate EXCEPT
                                 !.children = r2.children,
                                 !.num_children = Len(field.children),
                                 !.atttypid = IF field.tag = "Struct" THEN "composite"
                                              ELSE get_array_type(r2.children[1].atttypid)]]
        Assigned(r1) ==
            WithChildren(r1, BuildChildren(r1.con, field.children, 1, <<>>))
    IN  Assigned(__assignRecordBatchFieldStateBuffer(
                    [FieldStateOfNode(con.nodes[con.fpos]) EXCEPT
                        !.attopts = [tag |-> field.tag, unitsz |-> unitsz, sub |-> 0]],
                    [con EXCEPT !.fpos = con.fpos + 1], FALSE))

\* __buildRecordBatchFieldState at depth 0
__buildRecordBatchFieldState(con, field) ==
    IF field.tag \in {"List", "LargeList", "Struct"}
    THEN IF con.fpos > Len(con.nodes)
            \/ (field.tag # "Struct" /\ Len(field.children) # 1)
         THEN [err |-> TRUE, fstate |-> ZeroFieldState, con |-> con]
         ELSE BuildNestedFieldState(con, field,
                                    CASE field.tag = "List" -> 4
                                      [] field.tag = "LargeList" -> 8
                                      [] field.tag = "Struct" -> 0)
    ELSE BuildScalarFieldState(con, field)

RECURSIVE BuildTopFields(_, _, _, _)
BuildTopFields(con, schema, j, acc) ==
    IF j > Len(schema) THEN [err |-> FALSE, fields |-> acc, con |-> con]
    ELSE LET Built(r) ==
                 IF r.err THEN [err |-> TRUE, fields |-> acc, con |-> con]
                 ELSE BuildTopFields(r.con, schema, j + 1, Append(acc, r.fstate))
         IN  Built(__buildRecordBatchFieldState(con, schema[j]))

\* __buildRecordBatchStateOne without the test of lines 1424-1426
BuildRecordBatchState_NoTailCheck(schema, rb_index, block, rbatch) ==
    LET Built(r) ==
            [raised   |-> rbatch.compression \/ r.err,
             rb_state |-> [rb_index  |-> rb_index,
                           rb_offset |-> block.offset + block.metaDataLength,
                           rb_length |-> block.bodyLength,
                           rb_nitems |-> rbatch.length,
                           nfields   |-> Len(schema),
                           fields    |-> r.fields]]
    IN  Built(BuildTopFields([buffers |-> rbatch.buffers, bpos |-> 1,
                              nodes |-> rbatch.nodes, fpos |-> 1],
                             schema, 1, <<>>))

\* __buildRecordBatchStateOne: whether it raised, and the RecordBatchState
\* of batch rb_index (counted from 0)
__buildRecordBatchStateOne(schema, rb_index, block, rbatch) ==
    LET Built(r) ==
            [raised   |-> \/ rbatch.compression
                          \/ r.err
                          \/ r.con.bpos # Len(rbatch.buffers) + 1
                          \/ r.con.fpos # Len(rbatch.nodes) + 1,
             rb_state |-> [rb_index  |-> rb_index,
                           rb_offset |-> block.offset + block.metaDataLength,
                           rb_length |-> block.bodyLength,
                           rb_nitems |-> rbatch.length,
                           nfields   |-> Len(schema),
                           fields    |-> r.fields]]
    IN  Built(BuildTopFields([buffers |-> rbatch.buffers, bpos |-> 1,
                              nodes |-> rbatch.nodes, fpos |-> 1],
                             schema, 1, <<>>))

\* __buildArrowFileStateByFile on a file that opens: whether it raised, and
\* the state it returns (NULL for a file without record batches).
\* af_info is what readArrowFileDesc found: stat_buf, footer, recordBatches.
__buildArrowFileStateByFile(af_info) ==
    LET footer == af_info.footer
        WithStats(one, arrow_bstats) ==
            IF one.raised \/ arrow_bstats = NULL
            THEN one
            ELSE [one EXCEPT !.rb_state =
                     applyArrowStatsBinary(one.rb_state, Deref(arrow_bstats))]
        Built(rbs) ==
            IF footer.num_recordBatches = 0
            THEN [raised |-> FALSE, af_state |-> NULL]
            ELSE IF \E i \in 1..footer.num_recordBatches : rbs[i].raised
            THEN [raised |-> TRUE, af_state |-> NULL]
            ELSE [raised |-> FALSE,
                  af_state |-> Ptr([stat_buf |-> af_info.stat_buf,
                                    rb_list |-> [i \in 1..footer.num_recordBatches |->
                                                    rbs[i].rb_state]])]
        Each(arrow_bstats) ==
            Built([i \in 1..footer.num_recordBatches |->
                     WithStats(__buildRecordBatchStateOne(footer.schema, i - 1,
                                                          footer.blocks[i],
                                                          af_info.recordBatches[i]),
                               arrow_bstats)])
    IN  Each(buildArrowStatsBinary(footer))

(***************************************************************************)
(* Part 3.  Batch pruning by min/max statistics                            *)
(***************************************************************************)

\* strategy numbers of the BRIN minmax operator family (pg_amop)
BTLessStrategyNumber == 1
BTLessEqualStrategyNumber == 2
BTEqualStrategyNumber == 3
BTGreaterEqualStrategyNumber == 4
BTGreaterStrategyNumber == 5
InvalidStrategy == 0

\* the strategy the pg_amop scan of __buildArrowStatsOper finds for opcode
StrategyOf(opcode) ==
    CASE opcode = "<"  -> BTLessStrategyNumber
      [] opcode = "<=" -> BTLessEqualStrategyNumber
      [] opcode = "="  -> BTEqualStrategyNumber
      [] opcode = ">=" -> BTGreaterEqualStrategyNumber
      [] opcode = ">"  -> BTGreaterStrategyNumber
      [] OTHER -> InvalidStrategy

get_commutator(opcode) ==
    CASE opcode = "<"  -> ">"
      [] opcode = "<=" -> ">="
      [] opcode = ">=" -> "<="
      [] opcode = ">"  -> "<"
      [] OTHER -> opcode

\* the operator function on two non-null datums
OperApply(opcode, a, b) ==
    CASE opcode = "<"  -> a < b
      [] opcode = "<=" -> a <= b
      [] opcode = "="  -> a = b
      [] opcode = ">=" -> a >= b
      [] opcode = ">"  -> a > b
      [] opcode = "<>" -> a # b

\* __buildArrowStatsOper with the two slots exchanged: Less and LessEqual
\* read the max slot, GreaterEqual and Greater the min slot
StatsOper_SlotsSwapped(stat_attrs, op, reverse) ==
    LET opcode   == IF ~reverse THEN op.opno ELSE get_commutator(op.opno)
        is_var   == IF ~reverse THEN op.var_left ELSE ~op.var_left
        strategy == StrategyOf(opcode)
    IN  IF ~is_var \/ op.varattno \notin stat_attrs \/ strategy = InvalidStrategy
        THEN <<>>
        ELSE << [slot |-> IF strategy \in {BTLessStrategyNumber, BTLessEqualStrategyNumber}
                          THEN "max" ELSE "min",
                 opcode |-> opcode, varattno |-> op.varattno, arg |-> op.arg] >>

\* A qual of outer_quals is  Var op Const  (var_left) or  Const op Var.
\* __buildArrowStatsOper(arange, ss, op, reverse): <<>> when it returns
\* false, else the expressions it appends to eval_quals.  An expression
\* reads the min slot (INNER_VAR) or the max slot (OUTER_VAR) of a column.
__buildArrowStatsOper(stat_attrs, op, reverse) ==
    LET opcode   == IF ~reverse THEN op.opno ELSE get_commutator(op.opno)
        is_var   == IF ~reverse THEN op.var_left ELSE ~op.var_left
        strategy == StrategyOf(opcode)
    IN  IF ~is_var \/ op.varattno \notin stat_attrs THEN <<>>
        ELSE IF strategy \in {BTLessStrategyNumber, BTLessEqualStrategyNumber}
        THEN << [slot |-> "min", opcode |-> opcode,
                 varattno |-> op.varattno, arg |-> op.arg] >>
        ELSE IF strategy \in {BTGreaterEqualStrategyNumber, BTGreaterStrategyNumber}
        THEN << [slot |-> "max", opcode |-> opcode,
                 varattno |-> op.varattno, arg |-> op.arg] >>
        ELSE IF strategy = BTEqualStrategyNumber
        THEN << [slot |-> "max", opcode |-> ">=",
                 varattno |-> op.varattno, arg |-> op.arg],
                [slot |-> "min", opcode |-> "<=",
                 varattno |-> op.varattno, arg |-> op.arg] >>
        ELSE <<>>

\* the quals of one OpExpr: tried as written, then reversed
StatsOperOf(stat_attrs, op) ==
    LET Tried(as_written) ==
            IF as_written # <<>> THEN as_written
            ELSE __buildArrowStatsOper(stat_attrs, op, TRUE)
    IN  Tried(__buildArrowStatsOper(stat_attrs, op, FALSE))

\* execInitArrowStatsHint: NULL when no qual can use the statistics
execInitArrowStatsHint(stat_attrs, quals) ==
    LET Hint(eval_quals) ==
            IF eval_quals = <<>> THEN NULL
            ELSE Ptr([eval_quals |-> eval_quals,
                      stat_attrs |-> stat_attrs,
                      load_attrs |-> {eval_quals[i].varattno : i \in 1..Len(eval_quals)}])
    IN  Hint(SeqConcat([i \in 1..Len(quals) |-> StatsOperOf(stat_attrs, quals[i])]))

\* __fetchArrowStatsDatum: the datum read from a SQLstat__datum by the
\* bound type of the column (integer types; the other types of the model's
\* files take the default branch)
__fetchArrowStatsDatum(fstate, sval) ==
    CASE fstate.atttypid = "int1" -> [ok |-> TRUE, datum |-> WrapSigned(sval, 1)]
      [] fstate.atttypid \in {"int2", "float2"} ->
                                     [ok |-> TRUE, datum |-> WrapSigned(sval, 2)]
      [] fstate.atttypid \in {"int4", "float4"} ->
                                     [ok |-> TRUE, datum |-> WrapSigned(sval, 4)]
      [] fstate.atttypid \in {"int8", "float8"} ->
                                     [ok |-> TRUE, datum |-> WrapSigned(sval, 8)]
      [] OTHER -> [ok |-> FALSE, datum |-> 0]

\* one expression of eval_quals on the loaded slots
EvalStatsQual(e, rb_state) ==
    LET fstate == rb_state.fields[e.varattno]
        sval   == IF e.slot = "min" THEN fstate.stat_min ELSE fstate.stat_max
    IN  OperApply(e.opcode, __fetchArrowStatsDatum(fstate, sval).datum, e.arg)

\* execCheckArrowStatsHint
execCheckArrowStatsHint(stats_hint, rb_state) ==
    IF \E anum \in stats_hint.load_attrs :
          \/ rb_state.fields[anum].stat_isnull
          \/ ~__fetchArrowStatsDatum(rb_state.fields[anum],
                                     rb_state.fields[anum].stat_min).ok
    THEN FALSE
    ELSE \A i \in 1..Len(stats_hint.eval_quals) :
            EvalStatsQual(stats_hint.eval_quals[i], rb_state)

(***************************************************************************)
(* Part 4.  The files of the model and the scan driver                     *)
(***************************************************************************)

VARIABLES
    ft_files,       \* the file set of the foreign table, in option order
    outer_quals,    \* the quals pushed down to the scan
    arrow_fdw_stats_hint_enabled,   \* the GUC arrow_fdw.stats_hint_enabled
    sc_pc,          \* "init", "scan" or "error" (ExecInitArrowFdw raised)
    af_state,       \* the ArrowFdwState, NULL before ExecInitArrowFdw
    returned,       \* history: positions in rbatches handed to the caller
    skipped,        \* history: positions in rbatches passed over
    eof_calls,      \* history: calls that returned NULL
    build,          \* what the memset of line 416 does in this build
    now,            \* gettimeofday
    fs,             \* file name -> [st_mtim, version] of the file on disk
    arrow_metadata_cache,   \* the shared segment: blocks, lists, hash slots
    mutex,          \* arrow_metadata_cache->mutex: holders of the LWLock
    procs,          \* backend -> its position in BuildArrowFileState
    postmaster,     \* "up", or "recovery" after a backend crashed
    unlinked,       \* the file names that are no longer on disk
    rb_input,       \* the schema and the RecordBatch message under build
    rb_result,      \* NULL, or what __buildRecordBatchStateOne made of it
    opt_input,      \* the options of a foreign table and the file system
    opt_result,     \* NULL, or what arrowFdwExtractFilesList made of them
    plan_input,     \* the files and the referenced columns of a relation
    plan_result,    \* NULL, or what ArrowGetForeignRelSize left in baserel
    lru_lock,       \* arrow_metadata_cache->lru_lock: its holder, or 0
    backends,       \* backend -> its position between two lock operations
    pscan,          \* a parallel scan: the shared counters and the participants
    preload,        \* a parallel GpuJoin: the inner preload of its participants
    outerjoin       \* a parallel GpuJoin: the right outer join of its participants

scan_vars == <<ft_files, outer_quals, arrow_fdw_stats_hint_enabled,
               sc_pc, af_state, returned, skipped, eof_calls>>

cache_vars == <<unlinked, build, now, fs, arrow_metadata_cache, mutex, procs,
                postmaster>>

build_vars == <<rb_input, rb_result>>

opt_vars == <<opt_input, opt_result>>

plan_vars == <<plan_input, plan_result>>

lock_vars == <<lru_lock, backends>>

par_vars == <<pscan, preload, outerjoin>>

\* rows per record batch of the model's files
BatchRows == 4

\* the ArrowRecordBatch message of a batch of one fixed-width or
\* variable-length column without nulls
OneColumnBatch(unitsz, has_extra) ==
    [length |-> BatchRows, compression |-> FALSE,
     nodes |-> << [length |-> BatchRows, null_count |-> 0] >>,
     buffers |-> << [offset |-> 0, length |-> 0],
                    [offset |-> 0,
                     length |-> MAXALIGN(unitsz * (BatchRows + (IF has_extra THEN 1 ELSE 0)))] >>
                 \o (IF has_extra THEN << [offset |-> 16, length |-> 8] >> ELSE <<>>)]

\* what readArrowFileDesc finds in a file of one column
OneColumnFile(ino, field, unitsz, has_extra, nbatches) ==
    [stat_buf |-> [st_dev |-> 1, st_ino |-> ino],
     footer |-> [schema |-> << field >>,
                 num_recordBatches |-> nbatches,
                 blocks |-> [i \in 1..nbatches |->
                               [offset |-> 64 * i, metaDataLength |-> 8,
                                bodyLength |-> 32]]],
     recordBatches |-> [i \in 1..nbatches |-> OneColumnBatch(unitsz, has_extra)]]

Int16File(ino, min_values, max_values, nbatches) ==
    OneColumnFile(ino, ArrowField("Int", 16, <<>>, min_values, max_values),
                  2, FALSE, nbatches)

\* the min_values / max_values strings of the model's files
MINV == <<"1", ",", "5", ",", "1", "0">>
MAXV == <<"4", ",", "8", ",", "1", "5">>
BADV == <<"1", ",", "x", ",", "1", "0">>
SHORTV == <<"1", ",", "5">>
TRIMMIN == <<" ", "-", "3", ",", " ", "9">>
TRIMMAX == <<"-", "1", " ", ",", ",", "1", "2", " ">>
WIDEMIN == <<"0", ",", "6", "5", "5", "4", "5">>
WIDEMAX == <<"4", ",", "6", "5", "5", "4", "6">>

\* The files a foreign table of the model can name.  rows gives the column
\* values each batch really holds.
FileNames == {"plain", "nostat", "badtok", "short", "long", "trim",
              "wide", "text", "empty"}

ArrowFileOf(fname) ==
    CASE fname = "plain"  -> Int16File(1, Ptr(MINV), Ptr(MAXV), 3)
      [] fname = "nostat" -> Int16File(2, NULL, NULL, 2)
      [] fname = "badtok" -> Int16File(3, Ptr(BADV), Ptr(MAXV), 3)
      [] fname = "short"  -> Int16File(4, Ptr(SHORTV), Ptr(MAXV), 3)
      [] fname = "long"   -> Int16File(5, Ptr(MINV), Ptr(MAXV), 2)
      [] fname = "trim"   -> Int16File(6, Ptr(TRIMMIN), Ptr(TRIMMAX), 2)
      [] fname = "wide"   -> Int16File(7, Ptr(WIDEMIN), Ptr(WIDEMAX), 2)
      [] fname = "text"   -> OneColumnFile(8, ArrowField("Utf8", 0, <<>>, Ptr(MINV), Ptr(MAXV)),
                                           4, TRUE, 3)
      [] fname = "empty"  -> Int16File(9, NULL, NULL, 0)

FileRows(fname) ==
    CASE fname = "plain"  -> << {1, 4}, {5, 8}, {10, 15} >>
      [] fname = "nostat" -> << {2, 9}, {10, 12} >>
      [] fname = "badtok" -> << {1, 4}, {5, 8}, {10, 15} >>
      [] fname = "short"  -> << {1, 4}, {5, 8}, {10, 15} >>
      [] fname = "long"   -> << {1, 4}, {5, 8} >>
      [] fname = "trim"   -> << {-3, -1}, {9, 12} >>
      [] fname = "wide"   -> << {0, 4}, {9, 10} >>
      [] fname = "text"   -> << {}, {}, {} >>
      [] fname = "empty"  -> << >>

\* the columns of the foreign table (pg_attribute.atttypid)
TableAttTypes == << "int2" >>

\* arrowSchemaCompatibilityCheck
arrowSchemaCompatibilityCheck(tupdesc, rb_state) ==
    /\ Len(tupdesc) = rb_state.nfields
    /\ \A j \in 1..Len(tupdesc) :
          LET fstate == rb_state.fields[j]
          IN  IF fstate.children = <<>>
              THEN tupdesc[j] = fstate.atttypid
              ELSE IF fstate.num_children = 1
                      /\ tupdesc[j] = get_array_type(fstate.children[1].atttypid)
              THEN tupdesc[j] # InvalidOid
              ELSE tupdesc[j] = "composite"

\* copyMetadataFieldCache, lines 6000-6001: the columns of one batch that
\* are added to *p_stat_attrs
StatAttrsOf(rb_state) ==
    {j \in 1..rb_state.nfields : ~rb_state.fields[j].stat_isnull}

\* the metadata of the file at position fdesc of the file set, as
\* ExecInitArrowFdw obtains it: the batches in index order, each tagged
\* with its file
LoadFileBatches(fdesc, fname) ==
    LET Loaded(st) ==
            [raised |-> st.raised,
             rb_cached |->
                IF st.af_state = NULL THEN <<>>
                ELSE [i \in 1..Len(Deref(st.af_state).rb_list) |->
                        [fdesc |-> fdesc, fname |-> fname,
                         rb_state |-> Deref(st.af_state).rb_list[i]]]]
    IN  Loaded(__buildArrowFileStateByFile(ArrowFileOf(fname)))

\* ExecInitArrowFdw: whether it raised, and the ArrowFdwState
InitArrowFdwState(files, quals, hint_enabled) ==
    LET State(raised, rb_list) ==
            [raised |-> raised,
             af |-> [rbatches     |-> rb_list,
                     num_rbatches |-> Len(rb_list),
                     stats_hint   |->
                        IF hint_enabled
                        THEN execInitArrowStatsHint(
                                UNION {StatAttrsOf(rb_list[i].rb_state) :
                                          i \in 1..Len(rb_list)},
                                quals)
                        ELSE NULL,
                     rbatch_index |-> 0,
                     rbatch_nload |-> 0,
                     rbatch_nskip |-> 0]]
        Files(per_file) ==
            State(\E k \in 1..Len(files) :
                     \/ per_file[k].raised
                     \/ \E i \in 1..Len(per_file[k].rb_cached) :
                           ~arrowSchemaCompatibilityCheck(
                               TableAttTypes, per_file[k].rb_cached[i].rb_state),
                  SeqConcat([k \in 1..Len(files) |-> per_file[k].rb_cached]))
    IN  Files([k \in 1..Len(files) |-> LoadFileBatches(k, files[k])])

\* arrowFdwLoadRecordBatch reading the counter without advancing it
LoadRetry_NoAdvance(af, rb_index, passed) ==
    IF rb_index >= af.num_rbatches
    THEN [found |-> -1, passed |-> passed, rbatch_index |-> rb_index + 1]
    ELSE [found |-> rb_index, passed |-> passed, rbatch_index |-> rb_index]

\* the retry loop of arrowFdwLoadRecordBatch from counter value rb_index:
\* the batches it passes over, and the batch it stops at (-1 for the NULL
\* it returns past the end)
RECURSIVE LoadRetry(_, _, _)
LoadRetry(af, rb_index, passed) ==
    IF rb_index >= af.num_rbatches
    THEN [found |-> -1, passed |-> passed, rbatch_index |-> rb_index + 1]
    ELSE IF af.stats_hint # NULL
            /\ ~execCheckArrowStatsHint(Deref(af.stats_hint),
                                        af.rbatches[rb_index + 1].rb_state)
    THEN LoadRetry(af, rb_index + 1, Append(passed, rb_index))
    ELSE [found |-> rb_index, passed |-> passed, rbatch_index |-> rb_index + 1]

\* calls of arrowFdwLoadRecordBatch past the end that the model follows
MaxEofCalls == 2

ExecInitArrowFdw ==
    /\ sc_pc = "init"
    /\ \E r \in {InitArrowFdwState(ft_files, outer_quals,
                                     arrow_fdw_stats_hint_enabled)} :
           IF r.raised
           THEN /\ sc_pc' = "error"
                /\ UNCHANGED af_state
           ELSE /\ sc_pc' = "scan"
                /\ af_state' = r.af
    /\ UNCHANGED <<ft_files, outer_quals, arrow_fdw_stats_hint_enabled,
                   returned, skipped, eof_calls>>
    /\ UNCHANGED <<cache_vars, build_vars, opt_vars, plan_vars, lock_vars, par_vars>>

arrowFdwLoadRecordBatch ==
    /\ sc_pc = "scan"
    /\ eof_calls < MaxEofCalls
    /\ \E r \in {LoadRetry(af_state, af_state.rbatch_index, <<>>)} :
           /\ af_state' = [af_state EXCEPT
                 !.rbatch_index = r.rbatch_index,
                 !.rbatch_nskip = @ + Len(r.passed),
                 !.rbatch_nload = IF r.found >= 0 /\ af_state.stats_hint # NULL
                                  THEN @ + 1 ELSE @]
           /\ skipped' = skipped \o r.passed
           /\ IF r.found < 0
              THEN /\ eof_calls' = eof_calls + 1
                   /\ UNCHANGED returned
              ELSE /\ returned' = Append(returned, r.found)
                   /\ UNCHANGED eof_calls
    /\ UNCHANGED <<ft_files, outer_quals, arrow_fdw_stats_hint_enabled, sc_pc>>
    /\ UNCHANGED <<cache_vars, build_vars, opt_vars, plan_vars, lock_vars, par_vars>>

\* the quals of the model: none, or one comparison of column 1 with a constant
QualOps == {"<", "<=", "=", ">=", ">", "<>"}
QualArgs == {5, 9, 10}
MaxScanFiles == 2

ScanQuals ==
    {<<>>} \cup
    { << [opno |-> o, var_left |-> vl, varattno |-> 1, arg |-> c] >> :
        o \in QualOps, vl \in BOOLEAN, c \in QualArgs }

ScanFileSets ==
    UNION { [1..n -> FileNames] : n \in 1..MaxScanFiles }

(***************************************************************************)
(* Part 5.  The shared metadata cache                                      *)
(***************************************************************************)

ARROW_METADATA_HASH_NSLOTS == 2000
ARROW_METADATA_CACHE_FREE_MAGIC == "0xdeadbeaf"
ARROW_METADATA_CACHE_ACTIVE_MAGIC == "0xcafebabe"

\* blocks of the segment, and entries of either kind a block is carved into
NBlocks == 2
MCachesPerBlock == 3
FCachesPerBlock == 3

\* The address of slot s of block b.  NULLREF is the null pointer, WILD a
\* pointer read from memory that was never written as a pointer.
NULLREF == 0
WILD == -1
SlotRef(b, s) == b * 10 + s
RefBlock(r) == r \div 10
Blocks == 1..NBlocks
MRefs == {SlotRef(b, s) : b \in Blocks, s \in 1..MCachesPerBlock}
FRefs == {SlotRef(b, s) : b \in Blocks, s \in 1..FCachesPerBlock}

ZeroTimeval == [tv_sec |-> 0, tv_usec |-> 0]
ZeroStat == [st_dev |-> 0, st_ino |-> 0,
             st_mtim |-> [tv_sec |-> 0, tv_nsec |-> 0]]

\* an arrowMetadataCache / arrowMetadataFieldCache of zeroed shared memory;
\* fields and children are the dlists of field caches, head first
ZeroMetadataCache ==
    [magic |-> "0", next |-> NULLREF, lru_tv |-> ZeroTimeval,
     stat_buf |-> ZeroStat,
     rb_index |-> 0, rb_offset |-> 0, rb_length |-> 0, rb_nitems |-> 0,
     nfields |-> 0, fields |-> <<>>]

ZeroMetadataFieldCache ==
    [magic |-> "0", atttypid |-> InvalidOid, atttypmod |-> 0,
     attopts |-> [tag |-> "None", unitsz |-> 0, sub |-> 0],
     nitems |-> 0, null_count |-> 0,
     nullmap_offset |-> 0, nullmap_length |-> 0,
     values_offset |-> 0, values_length |-> 0,
     extra_offset |-> 0, extra_length |-> 0,
     stat_min |-> 0, stat_max |-> 0, stat_isnull |-> FALSE,
     num_children |-> 0, children |-> <<>>]

\* arrowMetadataHashIndex.  hash_bytes is PostgreSQL's; the model takes a
\* fixed function of the key under which two of its files share a slot.
hash_bytes(st_dev, st_ino) == ((st_dev * 4001 + st_ino) * 4001) % 65536

arrowMetadataHashIndex(stat_buf) ==
    hash_bytes(stat_buf.st_dev, stat_buf.st_ino) % ARROW_METADATA_HASH_NSLOTS

\* pgstrom_startup_arrow_fdw: every block on free_blocks, every list empty.
\* hash_slots is kept for the slots in slots only, every other being empty.
\* corrupt records that a list node was pushed onto a second list or a
\* counter of live entries went below zero.
StartupMetadataCache(slots) ==
    [blocks       |-> [b \in Blocks |-> [unitsz |-> "none", n_actives |-> 0]],
     mcaches      |-> [r \in MRefs |-> ZeroMetadataCache],
     fcaches      |-> [r \in FRefs |-> ZeroMetadataFieldCache],
     free_blocks  |-> [b \in Blocks |-> b],
     free_mcaches |-> <<>>,
     free_fcaches |-> <<>>,
     hash_slots   |-> [h \in slots |-> <<>>],
     lru_list     |-> <<>>,
     corrupt      |-> FALSE]

\* dlist_delete of one node, and of every slot of block b
dlist_delete(list, r) == SelectSeq(list, LAMBDA x : x # r)
DeleteSlotsOf_Kept(list, b) == list
DeleteSlotsOf(list, b) == SelectSeq(list, LAMBDA x : RefBlock(x) # b)

\* the tail of __releaseMetadataFieldCache: the entry goes to the free
\* list, and its block to free_blocks when it was the last live entry
FreeFieldSlot(c, f) ==
    LET b == RefBlock(f)
        Back(c1) ==
            IF c1.blocks[b].n_actives = 0
            THEN [c1 EXCEPT !.free_fcaches = DeleteSlotsOf(@, b),
                            !.free_blocks = Append(@, b)]
            ELSE c1
    IN  Back([c EXCEPT !.fcaches[f].magic = ARROW_METADATA_CACHE_FREE_MAGIC,
                       !.free_fcaches = Append(@, f),
                       !.blocks[b].n_actives = @ - 1])

\* whether releasing entry r leaves the lists and counters well formed
FieldReleasable(c, f) ==
    /\ f \in FRefs
    /\ c.blocks[RefBlock(f)].unitsz = "f"
    /\ c.fcaches[f].magic = ARROW_METADATA_CACHE_ACTIVE_MAGIC

RECURSIVE __releaseMetadataFieldCache(_, _)
__releaseMetadataFieldCache(c, f) ==
    IF c.corrupt THEN c
    ELSE IF ~FieldReleasable(c, f) THEN [c EXCEPT !.corrupt = TRUE]
    ELSE IF c.fcaches[f].children # <<>>
    THEN __releaseMetadataFieldCache(
             __releaseMetadataFieldCache(
                 [c EXCEPT !.fcaches[f].children = Tail(@)],
                 Head(c.fcaches[f].children)),
             f)
    ELSE FreeFieldSlot(c, f)

\* the loop of __releaseMetadataCache over the fields of entry m
RECURSIVE ReleaseFieldsOf(_, _)
ReleaseFieldsOf(c, m) ==
    IF c.corrupt \/ c.mcaches[m].fields = <<>> THEN c
    ELSE ReleaseFieldsOf(
             __releaseMetadataFieldCache(
                 [c EXCEPT !.mcaches[m].fields = Tail(@)],
                 Head(c.mcaches[m].fields)),
             m)

FreeCacheSlot(c, m) ==
    LET b == RefBlock(m)
        Back(c1) ==
            IF c1.blocks[b].n_actives = 0
            THEN [c1 EXCEPT !.free_mcaches = DeleteSlotsOf(@, b),
                            !.free_blocks = Append(@, b)]
            ELSE c1
    IN  Back([c EXCEPT !.mcaches[m].magic = ARROW_METADATA_CACHE_FREE_MAGIC,
                       !.free_mcaches = Append(@, m),
                       !.blocks[b].n_actives = @ - 1])

\* whether entry m is linked through its chain or lru_chain node
Linked(c, m) ==
    \/ \E i \in 1..Len(c.lru_list) : c.lru_list[i] = m
    \/ \E h \in DOMAIN c.hash_slots :
          \E i \in 1..Len(c.hash_slots[h]) : c.hash_slots[h][i] = m

CacheReleasable(c, m) ==
    /\ m \in MRefs
    /\ c.blocks[RefBlock(m)].unitsz = "m"
    /\ c.mcaches[m].magic = ARROW_METADATA_CACHE_ACTIVE_MAGIC
    /\ ~Linked(c, m)

\* __releaseMetadataCache: follows next from m.  fault: a WILD next was
\* dereferenced.
RECURSIVE __releaseMetadataCache(_, _)
__releaseMetadataCache(c, m) ==
    IF m = NULLREF \/ c.corrupt THEN [cache |-> c, fault |-> FALSE]
    ELSE IF m = WILD THEN [cache |-> c, fault |-> TRUE]
    ELSE IF ~CacheReleasable(c, m)
    THEN [cache |-> [c EXCEPT !.corrupt = TRUE], fault |-> FALSE]
    ELSE __releaseMetadataCache(FreeCacheSlot(ReleaseFieldsOf(c, m), m),
                                c.mcaches[m].next)

\* dlist_delete(&mcache->lru_chain) and dlist_delete(&mcache->chain) of the
\* leader m, as __reclaimMetadataCache and lookupArrowMetadataCache do
\* before they release its chain
UnlinkLeader(c, m) ==
    [c EXCEPT !.lru_list = dlist_delete(@, m),
              !.hash_slots = [h \in DOMAIN @ |-> dlist_delete(@[h], m)]]

\* line 324: elapsed > 30000000UL.  elapsed is an int64_t and the constant
\* an unsigned long, so the comparison is unsigned: an elapsed below zero
\* (an lru_tv after gettimeofday) counts as large.
OlderThanThreshold_Always(elapsed) == TRUE
OlderThanThreshold(elapsed) == elapsed < 0 \/ elapsed > 30000000

\* __reclaimMetadataCache evicting the LRU tail whatever its age
ReclaimTail_AnyAge(c, curr_tv) ==
    LET mcache == c.lru_list[Len(c.lru_list)]
        Released(r) == [ok |-> TRUE, cache |-> r.cache, fault |-> r.fault]
    IN  IF c.lru_list # <<>>
        THEN Released(__releaseMetadataCache(UnlinkLeader(c, mcache), mcache))
        ELSE [ok |-> FALSE, cache |-> c, fault |-> FALSE]

\* __reclaimMetadataCache at time curr_tv: ok is its return value
__reclaimMetadataCache(c, curr_tv) ==
    LET mcache == c.lru_list[Len(c.lru_list)]
        elapsed == (curr_tv.tv_sec - c.mcaches[mcache].lru_tv.tv_sec) * 1000000
                   + (curr_tv.tv_usec - c.mcaches[mcache].lru_tv.tv_usec)
        Released(r) == [ok |-> TRUE, cache |-> r.cache, fault |-> r.fault]
    IN  IF c.lru_list # <<>> /\ OlderThanThreshold(elapsed)
        THEN Released(__releaseMetadataCache(UnlinkLeader(c, mcache), mcache))
        ELSE [ok |-> FALSE, cache |-> c, fault |-> FALSE]

\* while (dlist_is_empty(free_blocks)) if (!__reclaimMetadataCache()) return NULL
RECURSIVE ReclaimUntilFreeBlock(_, _)
ReclaimUntilFreeBlock(c, curr_tv) ==
    LET Again(r) ==
            IF r.ok /\ ~r.fault /\ ~r.cache.corrupt
            THEN ReclaimUntilFreeBlock(r.cache, curr_tv)
            ELSE [ok |-> FALSE, cache |-> r.cache, fault |-> r.fault]
    IN  IF c.free_blocks # <<>>
        THEN [ok |-> TRUE, cache |-> c, fault |-> FALSE]
        ELSE Again(__reclaimMetadataCache(c, curr_tv))

\* The head of free_blocks carved into entries of one kind.  Only the block
\* header and the owner and magic of each entry are written: an entry of a
\* block that held field caches keeps whatever they left at its next
\* (garbage, one of NULLREF and WILD), one of a block that held caches keeps
\* its fields, one of a block never carved is zero.
CarveBlock(c, kind, garbage) ==
    LET b == Head(c.free_blocks)
        was == c.blocks[b].unitsz
    IN  IF kind = "m"
        THEN [c EXCEPT
                !.free_blocks = Tail(@),
                !.blocks[b] = [unitsz |-> "m", n_actives |-> 0],
                !.mcaches = [r \in MRefs |->
                    IF RefBlock(r) # b THEN @[r]
                    ELSE IF was = "f"
                    THEN [@[r] EXCEPT !.magic = ARROW_METADATA_CACHE_FREE_MAGIC,
                                      !.next = garbage]
                    ELSE [@[r] EXCEPT !.magic = ARROW_METADATA_CACHE_FREE_MAGIC]],
                !.free_mcaches = @ \o [s \in 1..MCachesPerBlock |-> SlotRef(b, s)]]
        ELSE [c EXCEPT
                !.free_blocks = Tail(@),
                !.blocks[b] = [unitsz |-> "f", n_actives |-> 0],
                !.fcaches = [r \in FRefs |->
                    IF RefBlock(r) # b THEN @[r]
                    ELSE [@[r] EXCEPT !.magic = ARROW_METADATA_CACHE_FREE_MAGIC]],
                !.free_fcaches = @ \o [s \in 1..FCachesPerBlock |-> SlotRef(b, s)]]

\* __allocMetadataFieldCache: ref is the entry, NULLREF when it returns NULL
RECURSIVE __allocMetadataFieldCache(_, _, _)
__allocMetadataFieldCache(c, curr_tv, garbage) ==
    LET Carved(r) ==
            IF r.ok
            THEN __allocMetadataFieldCache(CarveBlock(r.cache, "f", garbage),
                                           curr_tv, garbage)
            ELSE [ref |-> NULLREF, cache |-> r.cache, fault |-> r.fault]
        fcache == Head(c.free_fcaches)
    IN  IF c.free_fcaches = <<>>
        THEN Carved(ReclaimUntilFreeBlock(c, curr_tv))
        ELSE [ref |-> fcache,
              cache |-> [c EXCEPT
                  !.free_fcaches = Tail(@),
                  !.blocks[RefBlock(fcache)].n_actives = @ + 1,
                  !.fcaches[fcache] =
                      [ZeroMetadataFieldCache EXCEPT
                          !.magic = ARROW_METADATA_CACHE_ACTIVE_MAGIC]],
              fault |-> FALSE]

\* What line 416 leaves of the entry: the memset is given the address of
\* the local pointer, not the entry.  "keep": the entry is written nowhere
\* but at its magic, and keeps the next it had.  "fault": the pointer is
\* zeroed and the store of the magic faults.
MetadataCacheAfterMemset(mcache) ==
    [mcache EXCEPT !.magic = ARROW_METADATA_CACHE_ACTIVE_MAGIC]

\* __allocMetadataCache in build how
__allocMetadataCache(c, curr_tv, garbage, how) ==
    LET Popped(c1) ==
            [ref |-> Head(c1.free_mcaches),
             cache |-> [c1 EXCEPT
                 !.free_mcaches = Tail(@),
                 !.blocks[RefBlock(Head(c1.free_mcaches))].n_actives = @ + 1,
                 !.mcaches[Head(c1.free_mcaches)] =
                     MetadataCacheAfterMemset(@)],
             fault |-> how = "fault"]
        Carved(r) ==
            IF r.ok
            THEN Popped(CarveBlock(r.cache, "m", garbage))
            ELSE [ref |-> NULLREF, cache |-> r.cache, fault |-> r.fault]
    IN  IF c.free_mcaches = <<>>
        THEN Carved(ReclaimUntilFreeBlock(c, curr_tv))
        ELSE Popped(c)

\* __buildArrowMetadataFieldCache: the field state fstate copied into a
\* field cache, its children into field caches on its children list
RECURSIVE __buildArrowMetadataFieldCache(_, _, _, _)
RECURSIVE BuildFieldCacheChildren(_, _, _, _, _, _)
BuildFieldCacheChildren(c, fcache, fstate, j, curr_tv, garbage) ==
    LET Child(r) ==
            IF r.fault \/ r.cache.corrupt
            THEN [ref |-> NULLREF, cache |-> r.cache, fault |-> r.fault]
            ELSE IF r.ref = NULLREF
            THEN [ref |-> NULLREF,
                  cache |-> __releaseMetadataFieldCache(r.cache, fcache),
                  fault |-> FALSE]
            ELSE BuildFieldCacheChildren(
                     [r.cache EXCEPT !.fcaches[fcache].children = Append(@, r.ref)],
                     fcache, fstate, j + 1, curr_tv, garbage)
    IN  IF j > fstate.num_children
        THEN [ref |-> fcache, cache |-> c, fault |-> FALSE]
        ELSE Child(__buildArrowMetadataFieldCache(c, fstate.children[j],
                                                  curr_tv, garbage))

__buildArrowMetadataFieldCache(c, fstate, curr_tv, garbage) ==
    LET Copied(r) ==
            IF r.ref = NULLREF \/ r.fault \/ r.cache.corrupt
            THEN [ref |-> NULLREF, cache |-> r.cache, fault |-> r.fault]
            ELSE BuildFieldCacheChildren(
                     [r.cache EXCEPT !.fcaches[r.ref] =
                         [@ EXCEPT !.atttypid = fstate.atttypid,
                                   !.atttypmod = fstate.atttypmod,
                                   !.attopts = fstate.attopts,
                                   !.nitems = fstate.nitems,
                                   !.null_count = fstate.null_count,
                                   !.nullmap_offset = fstate.nullmap_offset,
                                   !.nullmap_length = fstate.nullmap_length,
                                   !.values_offset = fstate.values_offset,
                                   !.values_length = fstate.values_length,
                                   !.extra_offset = fstate.extra_offset,
                                   !.extra_length = fstate.extra_length,
                                   !.stat_min = fstate.stat_min,
                                   !.stat_max = fstate.stat_max,
                                   !.stat_isnull = fstate.stat_isnull,
                                   !.num_children = fstate.num_children,
                                   !.children = <<>>]],
                     r.ref, fstate, 1, curr_tv, garbage)
    IN  Copied(__allocMetadataFieldCache(c, curr_tv, garbage))

\* the loop of __buildArrowMetadataCacheNoLock over the fields of one batch
RECURSIVE BuildCacheFields(_, _, _, _, _, _)
BuildCacheFields(c, mcache, rb_state, j, curr_tv, garbage) ==
    LET Field(r) ==
            IF r.ref = NULLREF \/ r.fault \/ r.cache.corrupt
            THEN [ok |-> FALSE, cache |-> r.cache, fault |-> r.fault]
            ELSE BuildCacheFields(
                     [r.cache EXCEPT !.mcaches[mcache].fields = Append(@, r.ref)],
                     mcache, rb_state, j + 1, curr_tv, garbage)
    IN  IF j > rb_state.nfields
        THEN [ok |-> TRUE, cache |-> c, fault |-> FALSE]
        ELSE Field(__buildArrowMetadataFieldCache(c, rb_state.fields[j],
                                                  curr_tv, garbage))

\* the return of __buildArrowMetadataCacheNoLock after an allocation
\* returned NULL: __releaseMetadataCache(mcache_head)
InsertRollback(c, mcache_head) ==
    LET Released(r) == [inserted |-> FALSE, head |-> mcache_head,
                        cache |-> r.cache, fault |-> r.fault]
    IN  Released(__releaseMetadataCache(c, mcache_head))

\* __buildArrowMetadataCacheNoLock from batch i of af_state on.  inserted:
\* the chain was linked to its hash slot and the LRU list.
RECURSIVE BuildCacheBatches(_, _, _, _, _, _, _, _)
BuildCacheBatches(c, state, i, mcache_head, mcache_prev, curr_tv, garbage, how) ==
    LET hindex == arrowMetadataHashIndex(state.stat_buf)
        rb_state == state.rb_list[i]
        Fields(r, mcache) ==
            IF r.fault \/ r.cache.corrupt
            THEN [inserted |-> FALSE, head |-> NULLREF,
                  cache |-> r.cache, fault |-> r.fault]
            ELSE IF ~r.ok
            THEN InsertRollback(r.cache,
                                IF mcache_head = NULLREF THEN mcache ELSE mcache_head)
            ELSE BuildCacheBatches(r.cache, state, i + 1,
                                   IF mcache_head = NULLREF THEN mcache ELSE mcache_head,
                                   mcache, curr_tv, garbage, how)
        Entry(c1, mcache) ==
            [c1 EXCEPT
                !.mcaches[mcache] =
                    [@ EXCEPT !.stat_buf = state.stat_buf,
                              !.rb_index = rb_state.rb_index,
                              !.rb_offset = rb_state.rb_offset,
                              !.rb_length = rb_state.rb_length,
                              !.rb_nitems = rb_state.rb_nitems,
                              !.nfields = rb_state.nfields,
                              !.fields = <<>>]]
        Chained(c1, mcache) ==
            IF mcache_head = NULLREF THEN c1
            ELSE [c1 EXCEPT !.mcaches[mcache_prev].next = mcache]
        Allocated(r) ==
            IF r.fault \/ r.cache.corrupt
            THEN [inserted |-> FALSE, head |-> NULLREF,
                  cache |-> r.cache, fault |-> r.fault]
            ELSE IF r.ref = NULLREF
            THEN InsertRollback(r.cache, mcache_head)
            ELSE Fields(BuildCacheFields(Chained(Entry(r.cache, r.ref), r.ref),
                                         r.ref, rb_state, 1, curr_tv, garbage),
                        r.ref)
    IN  IF i > Len(state.rb_list)
        THEN [inserted |-> TRUE, head |-> mcache_head,
              cache |-> [c EXCEPT
                  !.hash_slots[hindex] = Append(@, mcache_head),
                  !.mcaches[mcache_head].lru_tv = curr_tv,
                  !.lru_list = <<mcache_head>> \o @],
              fault |-> FALSE]
        ELSE Allocated(__allocMetadataCache(c, curr_tv, garbage, how))

__buildArrowMetadataCacheNoLock(c, state, curr_tv, garbage, how) ==
    BuildCacheBatches(c, state, 1, NULLREF, NULLREF, curr_tv, garbage, how)

\* the validity test of lookupArrowMetadataCache reading the nanoseconds only
CacheIsValid_NsecOnly(stat_buf, cached) ==
    stat_buf.st_mtim.tv_nsec <= cached.st_mtim.tv_nsec

\* the validity test taking a chain of the same st_mtim for stale
CacheIsValid_OlderOnly(stat_buf, cached) ==
    \/ stat_buf.st_mtim.tv_sec < cached.st_mtim.tv_sec
    \/ /\ stat_buf.st_mtim.tv_sec = cached.st_mtim.tv_sec
       /\ stat_buf.st_mtim.tv_nsec < cached.st_mtim.tv_nsec

\* lookupArrowMetadataCache, lines 461-463: "Is the metadata cache still
\* valid?"
CacheIsValid(stat_buf, cached) ==
    \/ stat_buf.st_mtim.tv_sec < cached.st_mtim.tv_sec
    \/ /\ stat_buf.st_mtim.tv_sec = cached.st_mtim.tv_sec
       /\ stat_buf.st_mtim.tv_nsec <= cached.st_mtim.tv_nsec

SameFile(stat_buf, cached) ==
    /\ stat_buf.st_dev = cached.st_dev
    /\ stat_buf.st_ino = cached.st_ino

\* lookupArrowMetadataCache after it released the stale chain of leader
\* mcache.  dlist_foreach goes on from the chain node of the released
\* leader, which is now a node of free_mcaches: the walk passes the entries
\* released after the leader and then circles free_mcaches, whose head is
\* never the end of the walk.  An entry of the same file it passes is taken
\* for a leader and its zeroed lru_chain is unlinked, which faults; with no
\* such entry the walk does not end.
WalkAfterRelease(before, after, stat_buf, mcache) ==
    LET passed == {r \in MRefs \ {mcache} :
                      /\ before.mcaches[r].magic = ARROW_METADATA_CACHE_ACTIVE_MAGIC
                      /\ after.mcaches[r].magic = ARROW_METADATA_CACHE_FREE_MAGIC}
                  \cup Range(after.free_mcaches)
    IN  IF \E r \in passed : SameFile(stat_buf, after.mcaches[r].stat_buf)
        THEN "fault"
        ELSE "hang"

\* lookupArrowMetadataCache from position i of the hash slot on.  how is
\* "found" (ref is the leader returned), "miss" (NULL returned), "fault" or
\* "hang".
RECURSIVE LookupFrom(_, _, _, _, _)
LookupFrom(c, stat_buf, has_exclusive, curr_tv, i) ==
    LET hindex == arrowMetadataHashIndex(stat_buf)
        mcache == c.hash_slots[hindex][i]
        Released(r) ==
            [how |-> IF r.fault THEN "fault"
                     ELSE WalkAfterRelease(c, r.cache, stat_buf, mcache),
             ref |-> NULLREF, cache |-> r.cache]
    IN  IF i > Len(c.hash_slots[hindex])
        THEN [how |-> "miss", ref |-> NULLREF, cache |-> c]
        ELSE IF ~SameFile(stat_buf, c.mcaches[mcache].stat_buf)
        THEN LookupFrom(c, stat_buf, has_exclusive, curr_tv, i + 1)
        ELSE IF CacheIsValid(stat_buf, c.mcaches[mcache].stat_buf)
        THEN [how |-> "found", ref |-> mcache,
              cache |-> [c EXCEPT !.mcaches[mcache].lru_tv = curr_tv,
                                  !.lru_list = <<mcache>> \o dlist_delete(@, mcache)]]
        ELSE IF has_exclusive
        THEN Released(__releaseMetadataCache(UnlinkLeader(c, mcache), mcache))
        ELSE LookupFrom(c, stat_buf, has_exclusive, curr_tv, i + 1)

lookupArrowMetadataCache(c, stat_buf, has_exclusive, curr_tv) ==
    LookupFrom(c, stat_buf, has_exclusive, curr_tv, 1)

\* __buildRecordBatchFieldStateByCache
RECURSIVE __buildRecordBatchFieldStateByCache(_, _)
__buildRecordBatchFieldStateByCache(c, fcache) ==
    LET e == c.fcaches[fcache]
    IN  [ZeroFieldState EXCEPT
            !.atttypid = e.atttypid,
            !.atttypmod = e.atttypmod,
            !.attopts = e.attopts,
            !.nitems = e.nitems,
            !.null_count = e.null_count,
            !.nullmap_offset = e.nullmap_offset,
            !.nullmap_length = e.nullmap_length,
            !.values_offset = e.values_offset,
            !.values_length = e.values_length,
            !.extra_offset = e.extra_offset,
            !.extra_length = e.extra_length,
            !.stat_min = e.stat_min,
            !.stat_max = e.stat_max,
            !.stat_isnull = e.stat_isnull,
            !.num_children = IF e.num_children > 0 THEN e.num_children ELSE 0,
            !.children =
                IF e.num_children > 0
                THEN [j \in 1..e.num_children |->
                        IF j <= Len(e.children)
                        THEN __buildRecordBatchFieldStateByCache(c, e.children[j])
                        ELSE ZeroFieldState]
                ELSE <<>>]

\* the RecordBatchState __buildArrowFileStateByCache makes of one entry
RecordBatchStateByCache(c, mcache) ==
    LET e == c.mcaches[mcache]
    IN  [rb_index  |-> e.rb_index,
         rb_offset |-> e.rb_offset,
         rb_length |-> e.rb_length,
         rb_nitems |-> e.rb_nitems,
         nfields   |-> e.nfields,
         fields    |-> [j \in 1..e.nfields |->
                          IF j <= Len(e.fields)
                          THEN __buildRecordBatchFieldStateByCache(c, e.fields[j])
                          ELSE ZeroFieldState]]

\* the loop of __buildArrowFileStateByCache along next.  how is "ok",
\* "fault" (next led out of the entries) or "hang" (next leads back into
\* the chain, and the loop appends for ever).
RECURSIVE CacheChainStates(_, _, _)
CacheChainStates(c, mcache, rb_list) ==
    IF mcache = NULLREF THEN [how |-> "ok", rb_list |-> rb_list]
    ELSE IF mcache \notin MRefs \/ c.blocks[RefBlock(mcache)].unitsz # "m"
    THEN [how |-> "fault", rb_list |-> rb_list]
    ELSE IF Len(rb_list) >= Cardinality(MRefs)
    THEN [how |-> "hang", rb_list |-> rb_list]
    ELSE CacheChainStates(c, c.mcaches[mcache].next,
                          Append(rb_list, RecordBatchStateByCache(c, mcache)))

__buildArrowFileStateByCache(c, mcache) ==
    LET Built(r) ==
            [how |-> r.how,
             af_state |-> [stat_buf |-> c.mcaches[mcache].stat_buf,
                           rb_list |-> r.rb_list]]
    IN  Built(CacheChainStates(c, mcache, <<>>))

\* ------------------------------------------------------------------------
\* The files the backends of the model open, and BuildArrowFileState

\* a file of one Struct column over one Int16 child that holds a null
NestedFile(ino) ==
    [stat_buf |-> [st_dev |-> 1, st_ino |-> ino],
     footer |-> [schema |-> << ArrowField("Struct", 0,
                                  << ArrowField("Int", 16, <<>>, NULL, NULL) >>,
                                  NULL, NULL) >>,
                 num_recordBatches |-> 1,
                 blocks |-> << [offset |-> 64, metaDataLength |-> 8,
                                bodyLength |-> 32] >>],
     recordBatches |->
        << [length |-> BatchRows, compression |-> FALSE,
            nodes |-> << [length |-> BatchRows, null_count |-> 0],
                         [length |-> BatchRows, null_count |-> 1] >>,
            buffers |-> << [offset |-> 0, length |-> 0],
                           [offset |-> 8, length |-> 8],
                           [offset |-> 16, length |-> MAXALIGN(2 * BatchRows)] >>] >>]

CacheFileNames == {"two", "one", "nest"}

\* the files of the backends that open what may be gone, empty or of
\* another schema than the table
OpenFileNames == {"one", "nest", "empty"}

\* the successive st_mtim of a file that is rewritten
MaxVersion == 2
MtimeOf(version) ==
    CASE version = 0 -> [tv_sec |-> 100, tv_nsec |-> 5]
      [] version = 1 -> [tv_sec |-> 100, tv_nsec |-> 7]
      [] OTHER       -> [tv_sec |-> 99 + version, tv_nsec |-> 0]

TWOMIN == <<"1", ",", "5">>
TWOMAX == <<"4", ",", "8">>

\* what stat() and readArrowFileDesc find of a file at a version: every
\* rewrite moves the record batches within the file
CacheFileInfo(fname, version) ==
    LET At(info) ==
            [info EXCEPT
                !.stat_buf = [st_dev |-> @.st_dev, st_ino |-> @.st_ino,
                              st_mtim |-> MtimeOf(version)],
                !.footer.blocks = [i \in DOMAIN @ |->
                                     [@[i] EXCEPT !.offset = @ + 8 * version]]]
    IN  At(CASE fname = "two"  -> Int16File(3345, Ptr(TWOMIN), Ptr(TWOMAX), 2)
             [] fname = "one"  -> Int16File(1, NULL, NULL, 1)
             [] fname = "nest" -> NestedFile(3)
             [] fname = "empty" -> Int16File(9, NULL, NULL, 0))

CacheHashSlots ==
    {arrowMetadataHashIndex(CacheFileInfo(f, 0).stat_buf) :
        f \in CacheFileNames \cup OpenFileNames}

\* compatibility checks that compare the number of columns only
Compatible_CountOnly(tupdesc, state) ==
    Len(tupdesc) = state.rb_list[1].nfields

\* the compatibility checks at the end of BuildArrowFileState
BuildArrowFileStateCompatible(tupdesc, state) ==
    LET rb_state == state.rb_list[1]
    IN  /\ Len(tupdesc) = rb_state.nfields
        /\ \A j \in 1..Len(tupdesc) : tupdesc[j] = rb_state.fields[j].atttypid

\* the descriptor of a foreign table whose columns are those of the file
TupDescOfFile(fname) ==
    LET rb_state == Deref(__buildArrowFileStateByFile(
                              CacheFileInfo(fname, 0)).af_state).rb_list[1]
    IN  [j \in 1..rb_state.nfields |-> rb_state.fields[j].atttypid]

NProcs == 2
Procs == 1..NProcs

\* a backend outside BuildArrowFileState
IdleProc ==
    [pc |-> "idle", fname |-> "", tupdesc |-> <<>>, error |-> "",
     stat_buf |-> ZeroStat, state |-> NULL,
     stale |-> FALSE, found |-> NULLREF,
     found_stat |-> ZeroStat]

\* elog(ERROR, ...): the call is left by a longjmp to the abort of the
\* transaction
Raised(proc, message) == [proc EXCEPT !.pc = "raised", !.error = message]

\* the descriptors of the foreign tables of the model
OpenTupDescs == {<< "int2" >>, << "int4" >>, << "composite" >>,
                 << "int2", "int2" >>}

\* LWLockAcquire / LWLockRelease of arrow_metadata_cache->mutex
FreeMutex == [exclusive |-> {}, shared |-> {}]

\* the times at which the model looks at the clock: an entry last used at
\* one of them is 30 s old at the next or, later, older
ClockSeconds == <<0, 30, 61>>

\* the files of the model that are rewritten while backends run, and how
\* often
RewrittenFiles == {"one"}
MaxRewrites == 2
Rewrites == fs["one"]

Running == postmaster = "up" /\ ~arrow_metadata_cache.corrupt

\* a backend dies of a signal: the postmaster takes every backend down
Crashed(p) ==
    /\ procs' = [procs EXCEPT ![p].pc = "crashed"]
    /\ postmaster' = "recovery"

\* BuildArrowFileState(frel, filename), lines 1594-1595:
\* stat(filename, &stat_buf), which fails on a file that is gone
CallStat(p, f, tupdesc) ==
    /\ Running
    /\ procs[p].pc = "idle"
    /\ procs' = [procs EXCEPT ![p] =
                    IF f \in unlinked
                    THEN Raised([IdleProc EXCEPT !.fname = f,
                                                 !.tupdesc = tupdesc],
                                "failed on stat")
                    ELSE [IdleProc EXCEPT !.pc = "stat", !.fname = f,
                                          !.tupdesc = tupdesc,
                                          !.stat_buf = CacheFileInfo(f, fs[f]).stat_buf]]
    /\ UNCHANGED <<unlinked, build, now, fs, arrow_metadata_cache, mutex, postmaster>>
    /\ UNCHANGED <<scan_vars, build_vars, opt_vars, plan_vars, lock_vars, par_vars>>

\* lines 1596-1606: the shared lock is taken and the file looked up.  On a
\* hit the state is built from the cache with the lock still held; on a miss
\* the lock is released.
LookupShared(p) ==
    /\ Running
    /\ procs[p].pc = "stat"
    /\ mutex.exclusive = {}
    /\ \E r \in {lookupArrowMetadataCache(arrow_metadata_cache,
                                          procs[p].stat_buf, FALSE, now)} :
          /\ arrow_metadata_cache' = r.cache
          /\ IF r.how # "found"
             THEN /\ procs' = [procs EXCEPT ![p].pc = "read",
                                               ![p].stat_buf = ZeroStat]
                  /\ UNCHANGED <<mutex, postmaster>>
             ELSE \E s \in {__buildArrowFileStateByCache(r.cache, r.ref)} :
                     /\ mutex' = [mutex EXCEPT !.shared = @ \cup {p}]
                     /\ CASE s.how = "ok" ->
                            /\ procs' = [procs EXCEPT
                                  ![p].pc = "hit",
                                  ![p].state = Ptr(s.af_state),
                                  ![p].found = r.ref,
                                  ![p].found_stat = r.cache.mcaches[r.ref].stat_buf]
                            /\ UNCHANGED postmaster
                          [] s.how = "fault" -> Crashed(p)
                          [] s.how = "hang" ->
                            /\ procs' = [procs EXCEPT ![p].pc = "hung"]
                            /\ UNCHANGED postmaster
    /\ UNCHANGED <<unlinked, build, now, fs>>
    /\ UNCHANGED <<scan_vars, build_vars, opt_vars, plan_vars, lock_vars, par_vars>>

\* lines 1618-1645 after a hit: the shared lock is released; the
\* compatibility checks raise or the state is returned
ReturnCached(p) ==
    /\ Running
    /\ procs[p].pc = "hit"
    /\ mutex' = [mutex EXCEPT !.shared = @ \ {p}]
    /\ procs' = [procs EXCEPT ![p] =
                    IF BuildArrowFileStateCompatible(procs[p].tupdesc,
                                                     Deref(procs[p].state))
                    THEN IdleProc
                    ELSE Raised(@, "is not compatible")]
    /\ UNCHANGED <<unlinked, build, now, fs, arrow_metadata_cache, postmaster>>
    /\ UNCHANGED <<scan_vars, build_vars, opt_vars, plan_vars, lock_vars, par_vars>>

\* lines 1609-1611: __buildArrowFileStateByFile with no lock held; the call
\* ends here when the file holds no record batch or cannot be bound
ReadFile(p) ==
    /\ Running
    /\ procs[p].pc = "read"
    /\ \E r \in {__buildArrowFileStateByFile(
                     CacheFileInfo(procs[p].fname, fs[procs[p].fname]))} :
          procs' = [procs EXCEPT ![p] =
                       IF procs[p].fname \in unlinked THEN IdleProc
                       ELSE IF r.raised THEN Raised(@, "is corrupted")
                       ELSE IF r.af_state = NULL THEN IdleProc
                       ELSE [@ EXCEPT !.pc = "built", !.state = r.af_state]]
    /\ UNCHANGED <<unlinked, build, now, fs, arrow_metadata_cache, mutex, postmaster>>
    /\ UNCHANGED <<scan_vars, build_vars, opt_vars, plan_vars, lock_vars, par_vars>>

\* whether the hash slot holds a leader of the file that is older than it
HoldsStale(c, stat_buf) ==
    \E i \in 1..Len(c.hash_slots[arrowMetadataHashIndex(stat_buf)]) :
       LET e == c.mcaches[c.hash_slots[arrowMetadataHashIndex(stat_buf)][i]]
       IN  SameFile(stat_buf, e.stat_buf) /\ ~CacheIsValid(stat_buf, e.stat_buf)

\* lines 1613-1616: the exclusive lock is taken, the file looked up again
\* and, when it is still missing, inserted
LookupOrInsert(p) ==
    /\ Running
    /\ procs[p].pc = "built"
    /\ mutex = FreeMutex
    /\ mutex' = [mutex EXCEPT !.exclusive = {p}]
    /\ \E garbage \in {NULLREF, WILD} :
       \E r \in {lookupArrowMetadataCache(arrow_metadata_cache,
                                          Deref(procs[p].state).stat_buf,
                                          TRUE, now)} :
       \E was_stale \in {HoldsStale(arrow_metadata_cache,
                                     Deref(procs[p].state).stat_buf)} :
          CASE r.how = "found" ->
                 /\ arrow_metadata_cache' = r.cache
                 /\ procs' = [procs EXCEPT
                       ![p].pc = "relooked",
                       ![p].stale = was_stale,
                       ![p].found = r.ref,
                       ![p].found_stat = r.cache.mcaches[r.ref].stat_buf]
                 /\ UNCHANGED postmaster
            [] r.how = "fault" ->
                 /\ arrow_metadata_cache' = r.cache
                 /\ procs' = [procs EXCEPT ![p].pc = "crashed",
                                           ![p].stale = was_stale]
                 /\ postmaster' = "recovery"
            [] r.how = "hang" ->
                 /\ arrow_metadata_cache' = r.cache
                 /\ procs' = [procs EXCEPT ![p].pc = "hung",
                                           ![p].stale = was_stale]
                 /\ UNCHANGED postmaster
            [] r.how = "miss" ->
                 \E b \in {__buildArrowMetadataCacheNoLock(
                               r.cache, Deref(procs[p].state), now, garbage, build)} :
                    /\ arrow_metadata_cache' = b.cache
                    /\ procs' = [procs EXCEPT
                          ![p].pc = IF b.fault THEN "crashed"
                                    ELSE IF b.inserted THEN "inserted"
                                    ELSE "uncached",
                          ![p].stale = was_stale,
                          ![p].found = b.head]
                    /\ postmaster' = IF b.fault THEN "recovery" ELSE postmaster
    /\ UNCHANGED <<unlinked, build, now, fs>>
    /\ UNCHANGED <<scan_vars, build_vars, opt_vars, plan_vars, lock_vars, par_vars>>

\* lines 1618-1645 after a miss: the exclusive lock is released; the
\* compatibility checks raise or the state built from the file is returned
ReturnBuilt(p) ==
    /\ Running
    /\ procs[p].pc \in {"relooked", "inserted", "uncached"}
    /\ mutex' = [mutex EXCEPT !.exclusive = {}]
    /\ procs' = [procs EXCEPT ![p] =
                    IF BuildArrowFileStateCompatible(procs[p].tupdesc,
                                                     Deref(procs[p].state))
                    THEN IdleProc
                    ELSE Raised(@, "is not compatible")]
    /\ UNCHANGED <<unlinked, build, now, fs, arrow_metadata_cache, postmaster>>
    /\ UNCHANGED <<scan_vars, build_vars, opt_vars, plan_vars, lock_vars, par_vars>>

\* the transaction of a backend that raised is aborted: whatever lock it
\* holds is released and the backend is ready for the next call
AbortTransaction(p) ==
    /\ Running
    /\ procs[p].pc = "raised"
    /\ procs' = [procs EXCEPT ![p] = IdleProc]
    /\ mutex' = [exclusive |-> mutex.exclusive \ {p},
                 shared |-> mutex.shared \ {p}]
    /\ UNCHANGED <<unlinked, build, now, fs, arrow_metadata_cache, postmaster>>
    /\ UNCHANGED <<scan_vars, build_vars, opt_vars, plan_vars, lock_vars, par_vars>>

\* a file is removed
Unlink(f) ==
    /\ f \notin unlinked
    /\ unlinked' = unlinked \cup {f}
    /\ UNCHANGED <<build, now, fs, arrow_metadata_cache, mutex, procs, postmaster>>
    /\ UNCHANGED <<scan_vars, build_vars, opt_vars, plan_vars, lock_vars, par_vars>>

\* time passes
Tick ==
    /\ \E k \in 1..(Len(ClockSeconds) - 1) :
          /\ now.tv_sec = ClockSeconds[k]
          /\ now' = [now EXCEPT !.tv_sec = ClockSeconds[k + 1]]
    /\ UNCHANGED <<unlinked, build, fs, arrow_metadata_cache, mutex, procs, postmaster>>
    /\ UNCHANGED <<scan_vars, build_vars, opt_vars, plan_vars, lock_vars, par_vars>>

\* a file is rewritten
Touch(f) ==
    /\ fs[f] < MaxVersion
    /\ Rewrites < MaxRewrites
    /\ fs' = [fs EXCEPT ![f] = @ + 1]
    /\ UNCHANGED <<unlinked, build, now, arrow_metadata_cache, mutex, procs, postmaster>>
    /\ UNCHANGED <<scan_vars, build_vars, opt_vars, plan_vars, lock_vars, par_vars>>

\* crash recovery: the shared segment is set up again by
\* pgstrom_startup_arrow_fdw and new backends start
Restart ==
    /\ postmaster = "recovery"
    /\ postmaster' = "up"
    /\ arrow_metadata_cache' = StartupMetadataCache(CacheHashSlots)
    /\ mutex' = FreeMutex
    /\ procs' = [p \in Procs |-> IdleProc]
    /\ UNCHANGED <<unlinked, build, now, fs>>
    /\ UNCHANGED <<scan_vars, build_vars, opt_vars, plan_vars, lock_vars, par_vars>>


(***************************************************************************)
(* Part 6.  The builder applied to one RecordBatch message                 *)
(***************************************************************************)

\* a field without statistics; bits is its bitWidth or byteWidth, unit its
\* unit or precision
PlainField(tag, bits, unit, children) ==
    [tag |-> tag, bitWidth |-> bits, byteWidth |-> bits,
     precision |-> unit, unit |-> unit, timezone |-> FALSE,
     children |-> children, min_values |-> NULL, max_values |-> NULL]

\* the unit and bit-width values of the Arrow flat-buffer schema that the
\* model feeds to the binder; the last of each list is one the switch of
\* __buildRecordBatchFieldState has no case for
IntBitWidths == {8, 16, 32, 64, 24}
Precisions == {"Half", "Single", "Double", "Quad"}
DecimalBitWidths == {128, 256}
DateUnits == {"Day", "MilliSecond", "Second"}
TimeUnits == {"Second", "MilliSecond", "MicroSecond", "NanoSecond", "Day"}
IntervalUnits == {"Year_Month", "Day_Time", "Month_Day_Nano"}
ByteWidths == {-1, 0, 4, 6, 16, BLCKSZ, BLCKSZ + 1}
TypeHints == {"macaddr", "inet", "int4"}

\* every field without children that the model binds
ScalarFields ==
    {PlainField("Int", w, "", <<>>) : w \in IntBitWidths}
    \cup {PlainField("FloatingPoint", 0, x, <<>>) : x \in Precisions}
    \cup {PlainField("Bool", 0, "", <<>>)}
    \cup {PlainField("Decimal", w, "", <<>>) : w \in DecimalBitWidths}
    \cup {PlainField("Date", 0, u, <<>>) : u \in DateUnits}
    \cup {PlainField("Time", 0, u, <<>>) : u \in TimeUnits}
    \cup {PlainField("Timestamp", 0, u, <<>>) : u \in TimeUnits}
    \cup {[PlainField("Timestamp", 0, u, <<>>) EXCEPT !.timezone = TRUE] :
             u \in TimeUnits}
    \cup {PlainField("Interval", 0, u, <<>>) : u \in IntervalUnits}
    \cup {PlainField(tag, 0, "", <<>>) :
             tag \in {"Utf8", "LargeUtf8", "Binary", "LargeBinary"}}
    \cup {PlainField("FixedSizeBinary", w, "", <<>>) : w \in ByteWidths}
    \cup {[pg_type |-> h] @@ PlainField("FixedSizeBinary", w, "", <<>>) :
             w \in ByteWidths, h \in TypeHints}
    \cup {PlainField(tag, 0, "", <<>>) : tag \in {"Null", "Union", "Map", "Duration"}}

Int16Field == PlainField("Int", 16, "", <<>>)
Utf8Field == PlainField("Utf8", 0, "", <<>>)

\* fields with children, well formed and not
NestedFields ==
    LET list == PlainField("List", 0, "", << Int16Field >>)
    IN  {PlainField("List", 0, "", << Int16Field >>),
         PlainField("LargeList", 0, "", << Utf8Field >>),
         PlainField("List", 0, "", << Int16Field, Utf8Field >>),
         PlainField("List", 0, "", << list >>),
         PlainField("Struct", 0, "", << Int16Field, Utf8Field >>),
         PlainField("Struct", 0, "", << Utf8Field >>),
         PlainField("Struct", 0, "", << >>),
         PlainField("Struct", 0, "", << list >>)}

\* the schemas of the model: one field of any kind, or two columns
BuildSchemas ==
    {<< f >> : f \in ScalarFields \cup NestedFields}
    \cup {<< Int16Field, Utf8Field >>,
          << PlainField("Struct", 0, "", << PlainField("Int", 64, "", <<>>) >>),
             PlainField("Bool", 0, "", <<>>) >>}

\* the most field nodes and buffers a RecordBatch message of the model has
MaxNodes == 4
MaxBuffers == 7

\* a message whose buffers are all large and aligned: node i has
\* NodeRows + i rows, buffer k lies at GoodBufferSize * k
NodeRows == 2
GoodBufferSize == 8 * MAXIMUM_ALIGNOF
RoomyBatch(nnodes, nbuffers, null_count) ==
    [length |-> NodeRows + 1, compression |-> FALSE,
     nodes |-> [i \in 1..nnodes |->
                  [length |-> NodeRows + i, null_count |-> null_count]],
     buffers |-> [k \in 1..nbuffers |->
                    [offset |-> GoodBufferSize * k, length |-> GoodBufferSize]]]

\* the messages the model lays out buffer by buffer: one column of
\* LayoutRows rows, each buffer at one of LayoutOffsets with one of
\* LayoutLengths
LayoutRows == {0, 3, 9}
LayoutOffsets == {4, 8}
LayoutLengths == {0, 1, 6, 8, 16, 40}
LayoutNullCounts == {0, 2}
LayoutBuffers == [offset : LayoutOffsets, length : LayoutLengths]
LayoutExtras == [offset : LayoutOffsets, length : {0, 16}]
LayoutFields ==
    {Int16Field, PlainField("Bool", 0, "", <<>>),
     Utf8Field, PlainField("LargeBinary", 0, "", <<>>)}
LayoutBatch(nitems, null_count, buffers) ==
    [length |-> nitems, compression |-> FALSE,
     nodes |-> << [length |-> nitems, null_count |-> null_count] >>,
     buffers |-> buffers]

\* what the builder is given
BuildInputs ==
    {[schema |-> s, rbatch |-> RoomyBatch(nn, nb, nc)] :
        s \in BuildSchemas, nn \in 0..MaxNodes, nb \in 0..MaxBuffers,
        nc \in {0, 1}}
    \cup {[schema |-> << f >>, rbatch |-> LayoutBatch(n, nc, bs)] :
            f \in LayoutFields, n \in LayoutRows, nc \in LayoutNullCounts,
            bs \in [1..2 -> LayoutBuffers]
                    \cup {b2 \o << e >> : b2 \in [1..2 -> LayoutBuffers],
                                           e \in LayoutExtras}}
    \cup {[schema |-> << f >>,
           rbatch |-> [LayoutBatch(0, 0, [k \in 1..nb |-> [offset |-> 8 * k, length |-> 0]])
                          EXCEPT !.compression = c]] :
            f \in ScalarFields, nb \in 2..3, c \in BOOLEAN}

\* the block of the footer that locates the message
BuildBlock == [offset |-> 64, metaDataLength |-> 8, bodyLength |-> 512]

\* __buildRecordBatchStateOne is called on the message
BuildRecordBatch ==
    /\ rb_input # NULL
    /\ rb_result = NULL
    /\ rb_result' = Ptr(__buildRecordBatchStateOne(Deref(rb_input).schema, 0,
                                                   BuildBlock,
                                                   Deref(rb_input).rbatch))
    /\ UNCHANGED rb_input
    /\ UNCHANGED <<scan_vars, cache_vars, opt_vars, plan_vars, lock_vars, par_vars>>


(***************************************************************************)
(* Part 7.  The file-set resolver                                          *)
(***************************************************************************)

\* the terminating byte of a C string inside a buffer
NUL == "NUL"

\* the C string that starts at position s of a buffer
RECURSIVE CStringAt(_, _)
CStringAt(buf, s) ==
    IF s > Len(buf) \/ buf[s] = NUL THEN <<>>
    ELSE << buf[s] >> \o CStringAt(buf, s + 1)

\* strspn / strcspn from position s: the first position whose character is
\* not (is) a comma, the terminator counting as the end
RECURSIVE SkipCommas(_, _)
SkipCommas(buf, s) ==
    IF s <= Len(buf) /\ buf[s] = "," THEN SkipCommas(buf, s + 1) ELSE s

RECURSIVE TokenEnd(_, _)
TokenEnd(buf, s) ==
    IF s > Len(buf) \/ buf[s] = NUL \/ buf[s] = "," THEN s
    ELSE TokenEnd(buf, s + 1)

\* strtok_r(temp, ",", &saveptr) with a first argument that is not NULL:
\* the scan starts at the head of the buffer, whatever saveptr holds; the
\* token is returned as its position, and its delimiter is overwritten
strtok_r_from(buf) ==
    LET s == SkipCommas(buf, 1)
        e == TokenEnd(buf, s)
    IN  IF s > Len(buf) \/ buf[s] = NUL
        THEN [tok |-> NULL, buf |-> buf]
        ELSE [tok |-> Ptr(s),
              buf |-> IF e <= Len(buf) THEN [buf EXCEPT ![e] = NUL] ELSE buf]

\* __trim(tok) on a token inside a buffer: the trailing blanks are
\* overwritten with terminators and the position after the leading blanks is
\* returned
TrimInBuffer(buf, s) ==
    LET str == CStringAt(buf, s)
        kept == __trim(str)
        lead == Len(str) - Len(__trim_head(str))
    IN  [tok |-> kept,
         buf |-> [i \in 1..Len(buf) |->
                    IF i >= s + lead + Len(kept) /\ i < s + Len(str)
                    THEN NUL ELSE buf[i]]]

\* the while loop of the "files" option, lines 1717-1724, on the buffer
\* temp: how it ends and the paths it appended.  When a turn of the loop
\* leaves the buffer as it found it, every later turn does the same: the
\* loop appends the same path again and again and never ends ("loop").
RECURSIVE FilesOptionLoop(_, _, _)
FilesOptionLoop(temp, readable, appended) ==
    LET Turn(r) ==
            IF r.tok = NULL THEN [how |-> "ok", files |-> appended]
            ELSE LET Trimmed(t) ==
                         IF t.tok \notin readable
                         THEN [how |-> "error", files |-> appended]
                         ELSE IF t.buf = temp
                         THEN [how |-> "loop", files |-> Append(appended, t.tok)]
                         ELSE FilesOptionLoop(t.buf, readable,
                                              Append(appended, t.tok))
                 IN  Trimmed(TrimInBuffer(r.buf, Deref(r.tok)))
    IN  Turn(strtok_r_from(temp))

\* atoi: blanks, an optional sign, digits; 0 without digits
atoi(str) ==
    LET s == __trim_head(str)
        is_minus == Len(s) > 0 /\ s[1] = "-"
        signed == Len(s) > 0 /\ s[1] \in {"-", "+"}
        Value(r) == IF is_minus THEN 0 - r[1] ELSE r[1]
    IN  Value(__atoi128_digits(s, IF signed THEN 2 ELSE 1, 0))

\* strrchr(d_name, '.'): the position of the last dot, 0 without one
RECURSIVE strrchr_dot(_, _)
strrchr_dot(name, i) ==
    IF i = 0 THEN 0
    ELSE IF name[i] = "." THEN i
    ELSE strrchr_dot(name, i - 1)

\* lines 1754-1773: the entries of the directory that are appended
RECURSIVE ReadDirLoop(_, _, _, _, _)
ReadDirLoop(dir_path, dir_suffix, entries, readable, appended) ==
    IF entries = <<>> THEN appended
    ELSE LET d_name == Head(entries)
             pos == strrchr_dot(d_name, Len(d_name))
             temp == dir_path \o << "/" >> \o d_name
             skip == \/ d_name = << "." >>
                     \/ d_name = << ".", "." >>
                     \/ /\ dir_suffix # NULL
                        /\ \/ pos = 0
                           \/ SubSeq(d_name, pos + 1, Len(d_name)) # Deref(dir_suffix)
                     \/ temp \notin readable
         IN  ReadDirLoop(dir_path, dir_suffix, Tail(entries), readable,
                         IF skip THEN appended ELSE Append(appended, temp))

\* the locals of arrowFdwExtractFilesList before the first option
ExtractStart ==
    [how |-> "ok", filesList |-> <<>>, dir_path |-> NULL, dir_suffix |-> NULL,
     parallel_nworkers |-> -1]

\* one turn of foreach (lc, options_list), lines 1698-1743
ExtractOption(st, defel, readable) ==
    CASE defel.defname = "file" ->
            IF defel.arg \notin readable THEN [st EXCEPT !.how = "error"]
            ELSE [st EXCEPT !.filesList = Append(@, defel.arg)]
      [] defel.defname = "files" ->
            LET Looped(r) ==
                    [st EXCEPT !.how = r.how, !.filesList = @ \o r.files]
            IN  Looped(FilesOptionLoop(defel.arg, readable, <<>>))
      [] defel.defname = "dir" -> [st EXCEPT !.dir_path = Ptr(defel.arg)]
      [] defel.defname = "suffix" -> [st EXCEPT !.dir_suffix = Ptr(defel.arg)]
      [] defel.defname = "parallel_workers" ->
            IF st.parallel_nworkers >= 0 THEN [st EXCEPT !.how = "error"]
            ELSE [st EXCEPT !.parallel_nworkers = atoi(defel.arg)]
      [] OTHER -> [st EXCEPT !.how = "error"]

RECURSIVE ExtractOptions(_, _, _)
ExtractOptions(st, options_list, readable) ==
    IF options_list = <<>> \/ st.how # "ok" THEN st
    ELSE ExtractOptions(ExtractOption(st, Head(options_list), readable),
                        Tail(options_list), readable)

\* arrowFdwExtractFilesList(options_list, &parallel_nworkers) on a file
\* system fsys: readable is the set of paths access(path, R_OK) accepts,
\* dirs maps a directory to its entries in the order ReadDir returns them.
\* how is "ok" (the list is returned), "error" (elog(ERROR)) or "loop".
arrowFdwExtractFilesList(options_list, fsys) ==
    LET Scanned(st) ==
            IF st.how # "ok" THEN st
            ELSE IF st.dir_suffix # NULL /\ st.dir_path = NULL
            THEN [st EXCEPT !.how = "error"]
            ELSE IF st.dir_path = NULL THEN st
            ELSE IF Deref(st.dir_path) \notin DOMAIN fsys.dirs
            THEN [st EXCEPT !.how = "error"]
            ELSE [st EXCEPT !.filesList =
                     ReadDirLoop(Deref(st.dir_path), st.dir_suffix,
                                 fsys.dirs[Deref(st.dir_path)],
                                 fsys.readable, @)]
    IN  Scanned(ExtractOptions(ExtractStart, options_list, fsys.readable))

\* the file system of the model: directory d holds, in scan order,
\* ".", "f.x", "..", "h.x" (not readable), "g.y", "n" and "e.x"
DirD == << "d" >>
OptionsFileSystem ==
    [readable |-> {<< "a" >>, << "b" >>, << "c", " ", "c" >>,
                   << "d", "/", "f", ".", "x" >>, << "d", "/", "g", ".", "y" >>,
                   << "d", "/", "n" >>, << "d", "/", "e", ".", "x" >>,
                   << "d", "/", "." >>, << "d", "/", ".", "." >>},
     dirs |-> (DirD :> << << "." >>, << "f", ".", "x" >>, << ".", "." >>,
                          << "h", ".", "x" >>, << "g", ".", "y" >>, << "n" >>,
                          << "e", ".", "x" >> >>)]

DefElem(defname, arg) == [defname |-> defname, arg |-> arg]

\* the options a foreign table of the model is declared with
OptionChoices ==
    {DefElem("file", << "a" >>), DefElem("file", << "b" >>),
     DefElem("file", << "z" >>),
     DefElem("files", << "b", ",", "a" >>),
     DefElem("files", << " ", "a", " ", ",", ",", "c", " ", "c", " " >>),
     DefElem("files", << ",", "," >>),
     DefElem("files", << "z", ",", "a" >>),
     DefElem("dir", DirD), DefElem("dir", << "q" >>),
     DefElem("suffix", << "x" >>),
     DefElem("parallel_workers", << "2" >>),
     DefElem("parallel_workers", << "0" >>),
     DefElem("parallel_workers", << "-", "1" >>),
     DefElem("format", << "a" >>)}

\* the most options of one table
MaxOptions == 3

OptionInputs ==
    {[options_list |-> o, fsys |-> OptionsFileSystem] :
        o \in UNION {[1..n -> OptionChoices] : n \in 0..MaxOptions}}

\* arrowFdwExtractFilesList is called on the options of the table
ExtractFilesList ==
    /\ opt_input # NULL
    /\ opt_result = NULL
    /\ opt_result' = Ptr(arrowFdwExtractFilesList(Deref(opt_input).options_list,
                                                  Deref(opt_input).fsys))
    /\ UNCHANGED opt_input
    /\ UNCHANGED <<scan_vars, cache_vars, build_vars, plan_vars, lock_vars, par_vars>>

(***************************************************************************)
(* Part 8.  The size estimate of the planner                               *)
(***************************************************************************)

\* access/sysattr.h of PostgreSQL: the offset of the attribute numbers in
\* the bitmap of the referenced columns
FirstLowInvalidHeapAttributeNumber == -7

\* __recordBatchFieldLength without the loop over the children
RecordBatchFieldLength_NoChildren(fstate) ==
    (IF fstate.null_count > 0 THEN fstate.nullmap_length ELSE 0)
    + (fstate.values_length + fstate.extra_length)

RECURSIVE __recordBatchFieldLength(_)
RECURSIVE FieldLengthOfChildren(_, _)
\* the loop of __recordBatchFieldLength over children j, j + 1, ...
FieldLengthOfChildren(fstate, j) ==
    IF j > fstate.num_children THEN 0
    ELSE __recordBatchFieldLength(fstate.children[j])
         + FieldLengthOfChildren(fstate, j + 1)

__recordBatchFieldLength(fstate) ==
    (IF fstate.null_count > 0 THEN fstate.nullmap_length ELSE 0)
    + (fstate.values_length + fstate.extra_length)
    + FieldLengthOfChildren(fstate, 1)

\* bms_next_member: the smallest member above prevbit, -2 without one
bms_next_member(a, prevbit) ==
    IF {m \in a : m > prevbit} = {} THEN -2
    ELSE CHOOSE m \in a : m > prevbit /\ \A o \in a : o > prevbit => m <= o

bms_is_member(x, a) == x \in a

\* lines 1851-1858: the loop over the referenced columns from member k on
RECURSIVE ReferencedLength(_, _, _)
ReferencedLength(rb_state, referenced, k) ==
    LET j == k + FirstLowInvalidHeapAttributeNumber
    IN  IF k < 0 THEN 0
        ELSE (IF j <= 0 \/ j > rb_state.nfields THEN 0
              ELSE __recordBatchFieldLength(rb_state.fields[j]))
             + ReferencedLength(rb_state, referenced,
                                bms_next_member(referenced, k))

\* lines 1837-1861: what one record batch adds to totalLen
RecordBatchLength(rb_state, referenced) ==
    IF bms_is_member(-FirstLowInvalidHeapAttributeNumber, referenced)
    THEN rb_state.rb_length
    ELSE ReferencedLength(rb_state, referenced,
                          bms_next_member(referenced, -1))

\* BuildArrowFileState as the planner sees it: it raises on a file that is
\* gone, cannot be bound or does not match the table, returns NULL on a file
\* without record batches, and else the state of the file
PlanArrowFileState(tupdesc, present, af_info) ==
    LET Checked(r) ==
            IF r.raised THEN [raised |-> TRUE, af_state |-> NULL]
            ELSE IF r.af_state = NULL THEN r
            ELSE IF BuildArrowFileStateCompatible(tupdesc, Deref(r.af_state))
            THEN r
            ELSE [raised |-> TRUE, af_state |-> NULL]
    IN  IF ~present THEN [raised |-> TRUE, af_state |-> NULL]
        ELSE Checked(__buildArrowFileStateByFile(af_info))

\* the foreach over filesList from file n on.  st holds totalLen, ntuples
\* and results.
RECURSIVE RelSizeOfFiles(_, _, _, _, _)
RelSizeOfFiles(st, states, referenced, n, i) ==
    \* n: index into states, i: index into the rb_list of states[n]
    IF st.raised \/ n > Len(states) THEN st
    ELSE IF states[n].raised THEN [st EXCEPT !.raised = TRUE]
    ELSE IF states[n].af_state = NULL
    THEN RelSizeOfFiles(st, states, referenced, n + 1, 1)
    ELSE IF i > Len(Deref(states[n].af_state).rb_list)
    THEN RelSizeOfFiles([st EXCEPT !.results = Append(@, Deref(states[n].af_state))],
                        states, referenced, n + 1, 1)
    ELSE RelSizeOfFiles(
             [st EXCEPT
                 !.totalLen = @ + RecordBatchLength(
                                     Deref(states[n].af_state).rb_list[i], referenced),
                 !.ntuples = @ + Deref(states[n].af_state).rb_list[i].rb_nitems],
             states, referenced, n, i + 1)

\* ArrowGetForeignRelSize: what it leaves in baserel, when it returns
ArrowGetForeignRelSize(states, referenced) ==
    LET Done(st) ==
            [raised |-> st.raised,
             totalLen |-> st.totalLen,
             pages |-> st.totalLen \div BLCKSZ,
             tuples |-> st.ntuples,
             fdw_private |-> st.results]
    IN  Done(RelSizeOfFiles([raised |-> FALSE, totalLen |-> 0, ntuples |-> 0,
                             results |-> <<>>],
                            states, referenced, 1, 1))

\* ------------------------------------------------------------------------
\* The tables the planner of the model is asked about

\* three columns: a number, a text and a composite of both
PlanSchema ==
    << Int16Field, Utf8Field,
       PlainField("Struct", 0, "", << Int16Field, Utf8Field >>) >>

\* a record batch of PlanSchema (five field nodes, eleven buffers): the
\* nodes in nulls hold a null, every buffer has a length of its own
PlanBatch(rows, nulls) ==
    [length |-> rows, compression |-> FALSE,
     nodes |-> [i \in 1..5 |->
                  [length |-> rows,
                   null_count |-> IF i \in nulls THEN 1 ELSE 0]],
     buffers |-> [k \in 1..11 |->
                    [offset |-> 64 * k, length |-> 8 * Pow2(k + 1)]]]

PlanFileNames == {"a", "b", "none", "gone", "other"}

\* what readArrowFileDesc finds in the files of the table
PlanFileInfo(fname, nulls) ==
    LET File(ino, schema, rows) ==
            [stat_buf |-> [st_dev |-> 1, st_ino |-> ino],
             footer |-> [schema |-> schema,
                         num_recordBatches |-> Len(rows),
                         blocks |-> [i \in 1..Len(rows) |->
                                       [offset |-> 64 * i, metaDataLength |-> 8,
                                        bodyLength |-> 8 * Pow2(12 + ino + i)]]],
             recordBatches |-> [i \in 1..Len(rows) |-> PlanBatch(rows[i], nulls)]]
    IN  CASE fname = "a"     -> File(1, PlanSchema, << 4, 3 >>)
          [] fname = "b"     -> File(3, PlanSchema, << 2 >>)
          [] fname = "none"  -> File(5, PlanSchema, << >>)
          [] fname = "gone"  -> File(6, PlanSchema, << 1 >>)
          [] fname = "other" -> File(7, << Utf8Field, Int16Field, Int16Field >>,
                                     << 1 >>)

PlanTupDesc == << "int2", "text", "composite" >>

\* the attribute numbers a qualifier or target list of the model refers
\* to: ctid, the whole row, and the three columns
PlanAttnos == {-1, 0, 1, 2, 3}
PlanReferenced ==
    SUBSET {a - FirstLowInvalidHeapAttributeNumber : a \in PlanAttnos}

PlanNullPatterns == {{}, {1, 2, 3, 4, 5}, {2, 4}, {3}}

MaxPlanFiles == 2

PlanInputs ==
    {[filesList |-> fl, referenced |-> r, nulls |-> nulls] :
        fl \in UNION {[1..n -> PlanFileNames] : n \in 0..MaxPlanFiles},
        r \in PlanReferenced, nulls \in PlanNullPatterns}

\* the state BuildArrowFileState gives for file n of the input
PlanStates(input) ==
    [n \in 1..Len(input.filesList) |->
        PlanArrowFileState(PlanTupDesc, input.filesList[n] # "gone",
                           PlanFileInfo(input.filesList[n], input.nulls))]

\* the planner asks for the size of the relation
GetForeignRelSize ==
    /\ plan_input # NULL
    /\ plan_result = NULL
    /\ plan_result' = Ptr(ArrowGetForeignRelSize(PlanStates(Deref(plan_input)),
                                                 Deref(plan_input).referenced))
    /\ UNCHANGED plan_input
    /\ UNCHANGED <<scan_vars, cache_vars, build_vars, opt_vars, lock_vars, par_vars>>

(***************************************************************************)
(* Part 9.  BuildArrowFileState from one lock operation to the next        *)
(***************************************************************************)

LW_SHARED == "LW_SHARED"
LW_EXCLUSIVE == "LW_EXCLUSIVE"

\* whether LWLockAcquire of mtx in mode has to wait
LWLockConflicts(mtx, mode) ==
    IF mode = LW_SHARED THEN mtx.exclusive # {}
    ELSE mtx.exclusive # {} \/ mtx.shared # {}

LWLockAcquire(mtx, p, mode) ==
    IF mode = LW_SHARED THEN [mtx EXCEPT !.shared = @ \cup {p}]
    ELSE [mtx EXCEPT !.exclusive = @ \cup {p}]

\* LWLockRelease that leaves the lock held
LWLockRelease_Held(mtx, p) == mtx

LWLockRelease(mtx, p) ==
    [exclusive |-> mtx.exclusive \ {p}, shared |-> mtx.shared \ {p}]

\* SpinLockAcquire that goes on without the lock
SpinLockAcquire_Skipped(lock, p) == lock

\* SpinLockAcquire once the lock is free, SpinLockRelease
SpinLockAcquire(lock, p) == p

\* SpinLockRelease that leaves the lock held
SpinLockRelease_Held(lock, p) == lock

SpinLockRelease(lock, p) == 0

\* a backend outside BuildArrowFileState.  i, j, k are the batch, the field
\* and the child __buildArrowMetadataCacheNoLock is at, kind the allocator
\* that called __reclaimMetadataCache, victim the LRU tail it unlinked.
IdleBackend ==
    [pc |-> "idle", fname |-> "", stat_buf |-> ZeroStat, state |-> NULL,
     has_exclusive |-> FALSE, mcache |-> NULLREF, victim |-> NULLREF,
     i |-> 0, j |-> 0, k |-> 0,
     mcache_head |-> NULLREF, mcache_prev |-> NULLREF, fcache |-> NULLREF,
     kind |-> "", calls |-> 0]

\* the files the backends followed lock by lock open
LockFileNames == {"one", "two", "nest"}

\* the calls of BuildArrowFileState the backends make in all
MaxCalls == 3
RECURSIVE CallsUpTo(_)
CallsUpTo(p) == IF p = 0 THEN 0 ELSE backends[p].calls + CallsUpTo(p - 1)

\* the backend leaves the call
ReturnedBackend(b) == [IdleBackend EXCEPT !.calls = b.calls]

\* a backend dies of a signal
CrashedBackend(b) == [b EXCEPT !.pc = "crashed"]

\* lines 1594-1595: the backend enters stat(filename, &stat_buf)
StatFile(p, f) ==
    /\ Running
    /\ backends[p].pc = "idle"
    /\ CallsUpTo(NProcs) < MaxCalls
    /\ backends' = [backends EXCEPT ![p].pc = "stat", ![p].fname = f,
                                    ![p].calls = @ + 1]
    /\ UNCHANGED <<lru_lock, cache_vars>>
    /\ UNCHANGED <<scan_vars, build_vars, opt_vars, plan_vars, par_vars>>

\* stat returns what the file is at this moment
StatReturns(p) ==
    /\ Running
    /\ backends[p].pc = "stat"
    /\ backends' = [backends EXCEPT
          ![p].pc = "lock_shared",
          ![p].stat_buf = CacheFileInfo(backends[p].fname,
                                        fs[backends[p].fname]).stat_buf]
    /\ UNCHANGED <<lru_lock, cache_vars>>
    /\ UNCHANGED <<scan_vars, build_vars, opt_vars, plan_vars, par_vars>>

\* line 1596: LWLockAcquire(&arrow_metadata_cache->mutex, LW_SHARED)
AcquireShared(p) ==
    /\ Running
    /\ backends[p].pc = "lock_shared"
    /\ ~LWLockConflicts(mutex, LW_SHARED)
    /\ mutex' = LWLockAcquire(mutex, p, LW_SHARED)
    /\ backends' = [backends EXCEPT ![p].pc = "lookup",
                                    ![p].has_exclusive = FALSE]
    /\ UNCHANGED <<lru_lock, unlinked, build, now, fs, arrow_metadata_cache,
                   procs, postmaster>>
    /\ UNCHANGED <<scan_vars, build_vars, opt_vars, plan_vars, par_vars>>

\* line 1613: LWLockAcquire(&arrow_metadata_cache->mutex, LW_EXCLUSIVE)
AcquireExclusive(p) ==
    /\ Running
    /\ backends[p].pc = "lock_excl"
    /\ ~LWLockConflicts(mutex, LW_EXCLUSIVE)
    /\ mutex' = LWLockAcquire(mutex, p, LW_EXCLUSIVE)
    /\ backends' = [backends EXCEPT
          ![p].pc = "lookup", ![p].has_exclusive = TRUE,
          ![p].stat_buf = Deref(backends[p].state).stat_buf]
    /\ UNCHANGED <<lru_lock, unlinked, build, now, fs, arrow_metadata_cache,
                   procs, postmaster>>
    /\ UNCHANGED <<scan_vars, build_vars, opt_vars, plan_vars, par_vars>>

\* the dlist_foreach of lookupArrowMetadataCache from position i of the
\* hash slot up to its first lock operation: "found" a valid leader,
\* "stale" an invalid one under the exclusive lock, or "miss"
RECURSIVE WalkFrom(_, _, _, _)
WalkFrom(c, stat_buf, has_exclusive, i) ==
    LET hindex == arrowMetadataHashIndex(stat_buf)
        mcache == c.hash_slots[hindex][i]
    IN  IF i > Len(c.hash_slots[hindex])
        THEN [how |-> "miss", ref |-> NULLREF]
        ELSE IF ~SameFile(stat_buf, c.mcaches[mcache].stat_buf)
        THEN WalkFrom(c, stat_buf, has_exclusive, i + 1)
        ELSE IF CacheIsValid(stat_buf, c.mcaches[mcache].stat_buf)
        THEN [how |-> "found", ref |-> mcache]
        ELSE IF has_exclusive
        THEN [how |-> "stale", ref |-> mcache]
        ELSE WalkFrom(c, stat_buf, has_exclusive, i + 1)

\* lines 450-464, 475: the walk; a miss under the shared lock goes to the
\* release of line 1607, one under the exclusive lock to
\* __buildArrowMetadataCacheNoLock
WalkHashSlot(p) ==
    /\ Running
    /\ backends[p].pc = "lookup"
    /\ \E r \in {WalkFrom(arrow_metadata_cache, backends[p].stat_buf,
                          backends[p].has_exclusive, 1)} :
          backends' = [backends EXCEPT ![p] =
             CASE r.how = "found" -> [@ EXCEPT !.pc = "touch_spin",
                                               !.mcache = r.ref]
               [] r.how = "stale" -> [@ EXCEPT !.pc = "stale_spin",
                                               !.mcache = r.ref]
               [] r.how = "miss" ->
                    IF ~backends[p].has_exclusive
                    THEN [@ EXCEPT !.pc = "unlock_miss"]
                    ELSE [@ EXCEPT !.pc = "alloc_m", !.i = 1, !.j = 1, !.k = 1,
                                   !.mcache = NULLREF, !.fcache = NULLREF,
                                   !.mcache_head = NULLREF,
                                   !.mcache_prev = NULLREF]]
    /\ UNCHANGED <<lru_lock, cache_vars>>
    /\ UNCHANGED <<scan_vars, build_vars, opt_vars, plan_vars, par_vars>>

\* where a backend stands before SpinLockAcquire and where it goes on
SpinAcquirePcs ==
    [touch_spin |-> "touch", stale_spin |-> "stale_lru",
     reclaim_spin |-> "reclaim_tail", link_spin |-> "link_lru"]

\* lines 310, 466, 478, 1578: SpinLockAcquire(&arrow_metadata_cache->lru_lock)
SpinAcquire(p) ==
    /\ Running
    /\ backends[p].pc \in DOMAIN SpinAcquirePcs
    /\ lru_lock = 0
    /\ lru_lock' = SpinLockAcquire(lru_lock, p)
    /\ backends' = [backends EXCEPT ![p].pc = SpinAcquirePcs[backends[p].pc]]
    /\ UNCHANGED cache_vars
    /\ UNCHANGED <<scan_vars, build_vars, opt_vars, plan_vars, par_vars>>

\* lines 467-469: gettimeofday(&mcache->lru_tv), dlist_move_head
TouchEntry(p) ==
    /\ Running
    /\ backends[p].pc = "touch"
    /\ arrow_metadata_cache' =
          [arrow_metadata_cache EXCEPT
              !.mcaches[backends[p].mcache].lru_tv = now,
              !.lru_list = << backends[p].mcache >>
                           \o dlist_delete(@, backends[p].mcache)]
    /\ backends' = [backends EXCEPT ![p].pc = "touch_unspin"]
    /\ UNCHANGED <<lru_lock, unlinked, build, now, fs, mutex, procs, postmaster>>
    /\ UNCHANGED <<scan_vars, build_vars, opt_vars, plan_vars, par_vars>>

\* lines 479-480: dlist_delete(&mcache->lru_chain) of a stale leader
UnlinkStaleLru(p) ==
    /\ Running
    /\ backends[p].pc = "stale_lru"
    /\ arrow_metadata_cache' =
          [arrow_metadata_cache EXCEPT
              !.lru_list = dlist_delete(@, backends[p].mcache)]
    /\ backends' = [backends EXCEPT ![p].pc = "stale_unspin"]
    /\ UNCHANGED <<lru_lock, unlinked, build, now, fs, mutex, procs, postmaster>>
    /\ UNCHANGED <<scan_vars, build_vars, opt_vars, plan_vars, par_vars>>

\* lines 314-324: the age of the LRU tail is taken and an old tail is
\* unlinked from the LRU list
InspectLruTail(p) ==
    LET c == arrow_metadata_cache
        mcache == c.lru_list[Len(c.lru_list)]
        elapsed == (now.tv_sec - c.mcaches[mcache].lru_tv.tv_sec) * 1000000
                   + (now.tv_usec - c.mcaches[mcache].lru_tv.tv_usec)
    IN  /\ Running
        /\ backends[p].pc = "reclaim_tail"
        /\ IF c.lru_list # <<>> /\ OlderThanThreshold(elapsed)
           THEN /\ arrow_metadata_cache' =
                      [c EXCEPT !.lru_list = dlist_delete(@, mcache)]
                /\ backends' = [backends EXCEPT ![p].pc = "reclaim_unspin_old",
                                                ![p].victim = mcache]
           ELSE /\ UNCHANGED arrow_metadata_cache
                /\ backends' = [backends EXCEPT ![p].pc = "reclaim_unspin_young",
                                                ![p].victim = NULLREF]
        /\ UNCHANGED <<lru_lock, unlinked, build, now, fs, mutex, procs, postmaster>>
        /\ UNCHANGED <<scan_vars, build_vars, opt_vars, plan_vars, par_vars>>

\* the new leader pushed onto the tail of the LRU list
LinkLru_Tail(p) ==
    /\ Running
    /\ backends[p].pc = "link_lru"
    /\ arrow_metadata_cache' =
          [arrow_metadata_cache EXCEPT
              !.mcaches[backends[p].mcache_head].lru_tv = now,
              !.lru_list = @ \o << backends[p].mcache_head >>]
    /\ backends' = [backends EXCEPT ![p].pc = "link_unspin"]
    /\ UNCHANGED <<lru_lock, unlinked, build, now, fs, mutex, procs, postmaster>>
    /\ UNCHANGED <<scan_vars, build_vars, opt_vars, plan_vars, par_vars>>

\* lines 1579-1580: gettimeofday(&mcache_head->lru_tv), dlist_push_head
LinkLru(p) ==
    /\ Running
    /\ backends[p].pc = "link_lru"
    /\ arrow_metadata_cache' =
          [arrow_metadata_cache EXCEPT
              !.mcaches[backends[p].mcache_head].lru_tv = now,
              !.lru_list = << backends[p].mcache_head >> \o @]
    /\ backends' = [backends EXCEPT ![p].pc = "link_unspin"]
    /\ UNCHANGED <<lru_lock, unlinked, build, now, fs, mutex, procs, postmaster>>
    /\ UNCHANGED <<scan_vars, build_vars, opt_vars, plan_vars, par_vars>>

\* where a backend goes on after SpinLockRelease.  A reclaim that found
\* nothing to evict makes the allocator return NULL: the caller then
\* releases what it built of the file.
AfterSpinRelease(b) ==
    CASE b.pc = "touch_unspin" ->
           IF b.has_exclusive THEN "unlock_excl" ELSE "by_cache"
      [] b.pc = "stale_unspin" -> "stale_release"
      [] b.pc = "reclaim_unspin_old" -> "reclaim_release"
      [] b.pc = "reclaim_unspin_young" ->
           IF b.kind = "f" /\ b.fcache # NULLREF THEN "rollback_field"
           ELSE "rollback"
      [] b.pc = "link_unspin" -> "unlock_excl"

\* lines 325, 336, 470, 481, 1581: SpinLockRelease
SpinRelease(p) ==
    /\ Running
    /\ backends[p].pc \in {"touch_unspin", "stale_unspin", "reclaim_unspin_old",
                           "reclaim_unspin_young", "link_unspin"}
    /\ lru_lock' = SpinLockRelease(lru_lock, p)
    /\ backends' = [backends EXCEPT ![p].pc = AfterSpinRelease(backends[p])]
    /\ UNCHANGED cache_vars
    /\ UNCHANGED <<scan_vars, build_vars, opt_vars, plan_vars, par_vars>>

\* line 1601: __buildArrowFileStateByCache under the shared lock
BuildByCache(p) ==
    /\ Running
    /\ backends[p].pc = "by_cache"
    /\ \E s \in {__buildArrowFileStateByCache(arrow_metadata_cache,
                                              backends[p].mcache)} :
          CASE s.how = "ok" ->
                 /\ backends' = [backends EXCEPT ![p].pc = "unlock_hit",
                                                 ![p].state = Ptr(s.af_state)]
                 /\ UNCHANGED postmaster
            [] s.how = "fault" ->
                 /\ backends' = [backends EXCEPT ![p] = CrashedBackend(@)]
                 /\ postmaster' = "recovery"
            [] s.how = "hang" ->
                 /\ backends' = [backends EXCEPT ![p].pc = "hung"]
                 /\ UNCHANGED postmaster
    /\ UNCHANGED <<lru_lock, unlinked, build, now, fs, arrow_metadata_cache,
                   mutex, procs>>
    /\ UNCHANGED <<scan_vars, build_vars, opt_vars, plan_vars, par_vars>>

\* lines 1607 and 1617: LWLockRelease.  After a miss under the shared lock
\* the backend goes on to read the file; else the call returns (the table
\* of the model has the columns of the file).
ReleaseMutex(p) ==
    /\ Running
    /\ backends[p].pc \in {"unlock_hit", "unlock_miss", "unlock_excl"}
    /\ mutex' = LWLockRelease(mutex, p)
    /\ backends' = [backends EXCEPT ![p] =
          IF @.pc = "unlock_miss"
          THEN [@ EXCEPT !.pc = "read", !.has_exclusive = FALSE]
          ELSE ReturnedBackend(@)]
    /\ UNCHANGED <<lru_lock, unlinked, build, now, fs, arrow_metadata_cache,
                   procs, postmaster>>
    /\ UNCHANGED <<scan_vars, build_vars, opt_vars, plan_vars, par_vars>>

\* lines 1609-1611: __buildArrowFileStateByFile opens and reads the file
ReadArrowFile(p) ==
    /\ Running
    /\ backends[p].pc = "read"
    /\ \E r \in {__buildArrowFileStateByFile(
                     CacheFileInfo(backends[p].fname, fs[backends[p].fname]))} :
          backends' = [backends EXCEPT ![p] =
             IF r.raised \/ r.af_state = NULL THEN ReturnedBackend(@)
             ELSE [@ EXCEPT !.pc = "lock_excl", !.state = r.af_state]]
    /\ UNCHANGED <<lru_lock, cache_vars>>
    /\ UNCHANGED <<scan_vars, build_vars, opt_vars, plan_vars, par_vars>>

\* lines 482-485: the stale leader leaves its hash slot and its chain is
\* released; the dlist_foreach then goes on from the released node
ReleaseStale(p) ==
    /\ Running
    /\ backends[p].pc = "stale_release"
    /\ \E r \in {__releaseMetadataCache(
                     UnlinkLeader(arrow_metadata_cache, backends[p].mcache),
                     backends[p].mcache)} :
          /\ arrow_metadata_cache' = r.cache
          /\ IF r.fault \/ WalkAfterRelease(arrow_metadata_cache, r.cache,
                                            backends[p].stat_buf,
                                            backends[p].mcache) = "fault"
             THEN /\ backends' = [backends EXCEPT ![p] = CrashedBackend(@)]
                  /\ postmaster' = "recovery"
             ELSE /\ backends' = [backends EXCEPT ![p].pc = "hung"]
                  /\ UNCHANGED postmaster
    /\ UNCHANGED <<lru_lock, unlinked, build, now, fs, mutex, procs>>
    /\ UNCHANGED <<scan_vars, build_vars, opt_vars, plan_vars, par_vars>>

\* lines 326-330: the evicted leader leaves its hash slot and its chain is
\* released; __reclaimMetadataCache returns true to the allocator's
\* while (dlist_is_empty(&free_blocks))
ReleaseReclaimed(p) ==
    /\ Running
    /\ backends[p].pc = "reclaim_release"
    /\ \E r \in {__releaseMetadataCache(
                     UnlinkLeader(arrow_metadata_cache, backends[p].victim),
                     backends[p].victim)} :
          /\ arrow_metadata_cache' = r.cache
          /\ IF r.fault
             THEN /\ backends' = [backends EXCEPT ![p] = CrashedBackend(@)]
                  /\ postmaster' = "recovery"
             ELSE /\ backends' = [backends EXCEPT
                        ![p].pc = IF backends[p].kind = "m" THEN "alloc_m_blocks"
                                  ELSE "alloc_f_blocks",
                        ![p].victim = NULLREF]
                  /\ UNCHANGED postmaster
    /\ UNCHANGED <<lru_lock, unlinked, build, now, fs, mutex, procs>>
    /\ UNCHANGED <<scan_vars, build_vars, opt_vars, plan_vars, par_vars>>

\* lines 408-419: the head of free_mcaches becomes a live entry
PopMetadataCache(c) ==
    [c EXCEPT
        !.free_mcaches = Tail(@),
        !.blocks[RefBlock(Head(c.free_mcaches))].n_actives = @ + 1,
        !.mcaches[Head(c.free_mcaches)] = MetadataCacheAfterMemset(@)]

\* lines 1549-1559: the entry of batch rb_state, chained behind mcache_prev
FillMetadataCache(c, mcache, mcache_prev, stat_buf, rb_state) ==
    [c EXCEPT
        !.mcaches = [r \in MRefs |->
            IF r = mcache
            THEN [@[r] EXCEPT !.stat_buf = stat_buf,
                              !.rb_index = rb_state.rb_index,
                              !.rb_offset = rb_state.rb_offset,
                              !.rb_length = rb_state.rb_length,
                              !.rb_nitems = rb_state.rb_nitems,
                              !.nfields = rb_state.nfields,
                              !.fields = <<>>]
            ELSE IF r = mcache_prev THEN [@[r] EXCEPT !.next = mcache]
            ELSE @[r]]]

\* where __buildArrowMetadataCacheNoLock goes on once field j of batch i is
\* complete, or batch i has its entry: the next field, the next batch, or
\* the link into the hash slot
RECURSIVE AfterField(_)
AfterField(b) ==
    LET rb_list == Deref(b.state).rb_list
    IN  IF b.i > Len(rb_list) THEN [b EXCEPT !.pc = "link_hash"]
        ELSE IF b.mcache = NULLREF THEN [b EXCEPT !.pc = "alloc_m"]
        ELSE IF b.j > rb_list[b.i].nfields
        THEN AfterField([b EXCEPT !.mcache_prev = b.mcache, !.mcache = NULLREF,
                                  !.i = @ + 1, !.j = 1])
        ELSE [b EXCEPT !.pc = "alloc_f", !.fcache = NULLREF, !.k = 1]

\* __allocMetadataCache from its entry or from the return of a reclaim:
\* an entry is popped (after a block is carved), or the reclaim is called
AllocCache(p) ==
    LET c == arrow_metadata_cache
        b == backends[p]
        rb_state == Deref(b.state).rb_list[b.i]
        Entered(c1) ==
            /\ arrow_metadata_cache' =
                  FillMetadataCache(PopMetadataCache(c1), Head(c1.free_mcaches),
                                    b.mcache_prev, Deref(b.state).stat_buf,
                                    rb_state)
            /\ backends' = [backends EXCEPT ![p] =
                  AfterField([b EXCEPT
                      !.mcache = Head(c1.free_mcaches),
                      !.mcache_head = IF @ = NULLREF THEN Head(c1.free_mcaches)
                                      ELSE @,
                      !.j = 1])]
            /\ UNCHANGED postmaster
        Popped(c1) ==
            IF build = "fault"
            THEN /\ arrow_metadata_cache' = PopMetadataCache(c1)
                 /\ backends' = [backends EXCEPT ![p] = CrashedBackend(@)]
                 /\ postmaster' = "recovery"
            ELSE Entered(c1)
    IN  /\ Running
        /\ b.pc \in {"alloc_m", "alloc_m_blocks"}
        /\ IF b.pc = "alloc_m" /\ c.free_mcaches # <<>>
           THEN Popped(c)
           ELSE IF c.free_blocks # <<>>
           THEN \E garbage \in {NULLREF, WILD} :
                   Popped(CarveBlock(c, "m", garbage))
           ELSE /\ backends' = [backends EXCEPT ![p].pc = "reclaim_spin",
                                                ![p].kind = "m"]
                /\ UNCHANGED <<arrow_metadata_cache, postmaster>>
        /\ UNCHANGED <<lru_lock, unlinked, build, now, fs, mutex, procs>>
        /\ UNCHANGED <<scan_vars, build_vars, opt_vars, plan_vars, par_vars>>

\* lines 1490-1506: the field state copied into the entry
FillMetadataFieldCache(c, fcache, fstate) ==
    [c EXCEPT !.fcaches[fcache] =
        [@ EXCEPT !.atttypid = fstate.atttypid,
                  !.atttypmod = fstate.atttypmod,
                  !.attopts = fstate.attopts,
                  !.nitems = fstate.nitems,
                  !.null_count = fstate.null_count,
                  !.nullmap_offset = fstate.nullmap_offset,
                  !.nullmap_length = fstate.nullmap_length,
                  !.values_offset = fstate.values_offset,
                  !.values_length = fstate.values_length,
                  !.extra_offset = fstate.extra_offset,
                  !.extra_length = fstate.extra_length,
                  !.stat_min = fstate.stat_min,
                  !.stat_max = fstate.stat_max,
                  !.stat_isnull = fstate.stat_isnull,
                  !.num_children = fstate.num_children,
                  !.children = <<>>]]

\* lines 370-378: the head of free_fcaches becomes a live entry
PopMetadataFieldCache(c) ==
    [c EXCEPT
        !.free_fcaches = Tail(@),
        !.blocks[RefBlock(Head(c.free_fcaches))].n_actives = @ + 1,
        !.fcaches[Head(c.free_fcaches)] =
            [ZeroMetadataFieldCache EXCEPT
                !.magic = ARROW_METADATA_CACHE_ACTIVE_MAGIC]]

\* __allocMetadataFieldCache from its entry or from the return of a
\* reclaim, and what __buildArrowMetadataFieldCache does with the entry:
\* the entry of field j is filled and, once its children have theirs,
\* pushed onto the fields of the batch entry; the entry of child k is
\* filled and pushed onto the children of the entry of field j
AllocFieldCache(p) ==
    LET c == arrow_metadata_cache
        b == backends[p]
        top == Deref(b.state).rb_list[b.i].fields[b.j]
        Complete(c1, fcache) ==
            /\ arrow_metadata_cache' =
                  [c1 EXCEPT !.mcaches[b.mcache].fields = Append(@, fcache)]
            /\ backends' = [backends EXCEPT ![p] =
                  AfterField([b EXCEPT !.j = @ + 1, !.fcache = NULLREF])]
        Popped(c1) ==
            LET ref == Head(c1.free_fcaches)
            IN  IF b.fcache = NULLREF
                THEN IF top.num_children = 0
                     THEN Complete(FillMetadataFieldCache(
                                       PopMetadataFieldCache(c1), ref, top), ref)
                     ELSE /\ arrow_metadata_cache' =
                                FillMetadataFieldCache(
                                    PopMetadataFieldCache(c1), ref, top)
                          /\ backends' = [backends EXCEPT ![p].pc = "alloc_f",
                                                          ![p].fcache = ref,
                                                          ![p].k = 1]
                ELSE LET c2 == [FillMetadataFieldCache(
                                    PopMetadataFieldCache(c1), ref,
                                    top.children[b.k])
                                  EXCEPT !.fcaches[b.fcache].children =
                                             Append(@, ref)]
                     IN  IF b.k + 1 > top.num_children
                         THEN Complete(c2, b.fcache)
                         ELSE /\ arrow_metadata_cache' = c2
                              /\ backends' = [backends EXCEPT
                                    ![p].pc = "alloc_f", ![p].k = @ + 1]
    IN  /\ Running
        /\ b.pc \in {"alloc_f", "alloc_f_blocks"}
        /\ IF b.pc = "alloc_f" /\ c.free_fcaches # <<>>
           THEN Popped(c)
           ELSE IF c.free_blocks # <<>>
           THEN Popped(CarveBlock(c, "f", NULLREF))
           ELSE /\ backends' = [backends EXCEPT ![p].pc = "reclaim_spin",
                                                ![p].kind = "f"]
                /\ UNCHANGED arrow_metadata_cache
        /\ UNCHANGED <<lru_lock, unlinked, build, now, fs, mutex, procs,
                       postmaster>>
        /\ UNCHANGED <<scan_vars, build_vars, opt_vars, plan_vars, par_vars>>

\* lines 1513-1517: no entry for a child: the entry of field j is released
RollbackField(p) ==
    /\ Running
    /\ backends[p].pc = "rollback_field"
    /\ arrow_metadata_cache' =
          __releaseMetadataFieldCache(arrow_metadata_cache, backends[p].fcache)
    /\ backends' = [backends EXCEPT ![p].pc = "rollback", ![p].fcache = NULLREF]
    /\ UNCHANGED <<lru_lock, unlinked, build, now, fs, mutex, procs, postmaster>>
    /\ UNCHANGED <<scan_vars, build_vars, opt_vars, plan_vars, par_vars>>

\* lines 1543-1547, 1566-1570: no entry for a batch or a field:
\* __releaseMetadataCache(mcache_head), and nothing is cached of the file
Rollback(p) ==
    /\ Running
    /\ backends[p].pc = "rollback"
    /\ \E r \in {__releaseMetadataCache(arrow_metadata_cache,
                                        backends[p].mcache_head)} :
          /\ arrow_metadata_cache' = r.cache
          /\ IF r.fault
             THEN /\ backends' = [backends EXCEPT ![p] = CrashedBackend(@)]
                  /\ postmaster' = "recovery"
             ELSE /\ backends' = [backends EXCEPT ![p].pc = "unlock_excl"]
                  /\ UNCHANGED postmaster
    /\ UNCHANGED <<lru_lock, unlinked, build, now, fs, mutex, procs>>
    /\ UNCHANGED <<scan_vars, build_vars, opt_vars, plan_vars, par_vars>>

\* lines 1575-1577: the leader is pushed onto its hash slot
LinkHash(p) ==
    /\ Running
    /\ backends[p].pc = "link_hash"
    /\ arrow_metadata_cache' =
          [arrow_metadata_cache EXCEPT
              !.hash_slots[arrowMetadataHashIndex(Deref(backends[p].state).stat_buf)] =
                  Append(@, backends[p].mcache_head)]
    /\ backends' = [backends EXCEPT ![p].pc = "link_spin"]
    /\ UNCHANGED <<lru_lock, unlinked, build, now, fs, mutex, procs, postmaster>>
    /\ UNCHANGED <<scan_vars, build_vars, opt_vars, plan_vars, par_vars>>

\* crash recovery: the shared segment and its locks are set up again and
\* new backends start
RestartBackends ==
    /\ postmaster = "recovery"
    /\ postmaster' = "up"
    /\ arrow_metadata_cache' = StartupMetadataCache(CacheHashSlots)
    /\ mutex' = FreeMutex
    /\ lru_lock' = 0
    /\ backends' = [p \in Procs |-> ReturnedBackend(backends[p])]
    /\ UNCHANGED <<unlinked, build, now, fs, procs>>
    /\ UNCHANGED <<scan_vars, build_vars, opt_vars, plan_vars, par_vars>>

(***************************************************************************)
(* Part 10. The specifications                                             *)
(***************************************************************************)

\* the cache as the postmaster leaves it before the first backend starts
CacheStartup ==
    /\ now = ZeroTimeval
    /\ fs = [f \in CacheFileNames \cup OpenFileNames |-> 0]
    /\ arrow_metadata_cache = StartupMetadataCache(CacheHashSlots)
    /\ mutex = FreeMutex
    /\ procs = [p \in Procs |-> IdleProc]
    /\ postmaster = "up"
    /\ unlinked = {}

\* nothing is under build and no options are being resolved
NoBuild == rb_input = NULL /\ rb_result = NULL

NoOptions == opt_input = NULL /\ opt_result = NULL

NoPlan == plan_input = NULL /\ plan_result = NULL

\* no backend is followed lock by lock
NoBackends == lru_lock = 0 /\ backends = <<>>

\* no parallel query is followed
NoParallel == pscan = <<>> /\ preload = <<>> /\ outerjoin = <<>>

ScanInit ==
    /\ NoBuild /\ NoOptions /\ NoPlan /\ NoBackends /\ NoParallel
    /\ ft_files \in ScanFileSets
    /\ outer_quals \in ScanQuals
    /\ arrow_fdw_stats_hint_enabled \in BOOLEAN
    /\ sc_pc = "init"
    /\ af_state = NULL
    /\ returned = <<>>
    /\ skipped = <<>>
    /\ eof_calls = 0
    /\ build = "keep"
    /\ CacheStartup

CacheInit ==
    /\ NoBuild /\ NoOptions /\ NoPlan /\ NoBackends /\ NoParallel
    /\ build \in {"keep", "fault"}
    /\ CacheStartup
    /\ ft_files = <<>>
    /\ outer_quals = <<>>
    /\ arrow_fdw_stats_hint_enabled = TRUE
    /\ sc_pc = "init"
    /\ af_state = NULL
    /\ returned = <<>>
    /\ skipped = <<>>
    /\ eof_calls = 0

vars == <<scan_vars, cache_vars, build_vars, opt_vars, plan_vars, lock_vars,
          par_vars>>

\* the builder on its own, over every message of BuildInputs
BuildInit ==
    /\ rb_input \in {Ptr(x) : x \in BuildInputs}
    /\ rb_result = NULL
    /\ NoOptions /\ NoPlan /\ NoBackends /\ NoParallel
    /\ build = "keep"
    /\ CacheStartup
    /\ ft_files = <<>>
    /\ outer_quals = <<>>
    /\ arrow_fdw_stats_hint_enabled = TRUE
    /\ sc_pc = "init"
    /\ af_state = NULL
    /\ returned = <<>>
    /\ skipped = <<>>
    /\ eof_calls = 0

BuildNext == BuildRecordBatch

ScanNext == ExecInitArrowFdw \/ arrowFdwLoadRecordBatch

SpecScan == ScanInit /\ [][ScanNext]_vars

CacheNext ==
    \/ \E p \in Procs : \E f \in CacheFileNames :
          CallStat(p, f, TupDescOfFile(f))
    \/ \E p \in Procs : LookupShared(p)
    \/ \E p \in Procs : ReturnCached(p)
    \/ \E p \in Procs : ReadFile(p)
    \/ \E p \in Procs : LookupOrInsert(p)
    \/ \E p \in Procs : ReturnBuilt(p)
    \/ Tick
    \/ \E f \in RewrittenFiles : Touch(f)
    \/ Restart

SpecCache == CacheInit /\ [][CacheNext]_vars

\* backends of tables of any descriptor open files that may be gone, empty
\* or of another schema
OpenInit == CacheInit

OpenNext ==
    \/ \E p \in Procs : \E f \in OpenFileNames : \E tupdesc \in OpenTupDescs :
          CallStat(p, f, tupdesc)
    \/ \E p \in Procs : LookupShared(p)
    \/ \E p \in Procs : ReturnCached(p)
    \/ \E p \in Procs : ReadFile(p)
    \/ \E p \in Procs : LookupOrInsert(p)
    \/ \E p \in Procs : ReturnBuilt(p)
    \/ \E p \in Procs : AbortTransaction(p)
    \/ \E f \in OpenFileNames : Unlink(f)
    \/ Restart

SpecOpen == OpenInit /\ [][OpenNext]_vars

SpecBuild == BuildInit /\ [][BuildNext]_vars

\* the resolver on its own, over every option list of OptionInputs
OptionsInit ==
    /\ opt_input \in {Ptr(x) : x \in OptionInputs}
    /\ opt_result = NULL
    /\ NoBuild /\ NoPlan /\ NoBackends /\ NoParallel
    /\ build = "keep"
    /\ CacheStartup
    /\ ft_files = <<>>
    /\ outer_quals = <<>>
    /\ arrow_fdw_stats_hint_enabled = TRUE
    /\ sc_pc = "init"
    /\ af_state = NULL
    /\ returned = <<>>
    /\ skipped = <<>>
    /\ eof_calls = 0

OptionsNext == ExtractFilesList

SpecOptions == OptionsInit /\ [][OptionsNext]_vars

\* the planner on its own, over every table of PlanInputs
PlanInit ==
    /\ plan_input \in {Ptr(x) : x \in PlanInputs}
    /\ plan_result = NULL
    /\ NoBuild /\ NoOptions /\ NoBackends /\ NoParallel
    /\ build = "keep"
    /\ CacheStartup
    /\ ft_files = <<>>
    /\ outer_quals = <<>>
    /\ arrow_fdw_stats_hint_enabled = TRUE
    /\ sc_pc = "init"
    /\ af_state = NULL
    /\ returned = <<>>
    /\ skipped = <<>>
    /\ eof_calls = 0

PlanNext == GetForeignRelSize

\* backends followed from one lock operation to the next
LockInit ==
    /\ NoBuild /\ NoOptions /\ NoPlan /\ NoParallel
    /\ lru_lock = 0
    /\ backends = [p \in Procs |-> IdleBackend]
    /\ build \in {"keep", "fault"}
    /\ CacheStartup
    /\ ft_files = <<>>
    /\ outer_quals = <<>>
    /\ arrow_fdw_stats_hint_enabled = TRUE
    /\ sc_pc = "init"
    /\ af_state = NULL
    /\ returned = <<>>
    /\ skipped = <<>>
    /\ eof_calls = 0

LockNext ==
    \/ \E p \in Procs : \E f \in LockFileNames : StatFile(p, f)
    \/ \E p \in Procs : StatReturns(p)
    \/ \E p \in Procs : AcquireShared(p)
    \/ \E p \in Procs : WalkHashSlot(p)
    \/ \E p \in Procs : SpinAcquire(p)
    \/ \E p \in Procs : TouchEntry(p)
    \/ \E p \in Procs : SpinRelease(p)
    \/ \E p \in Procs : BuildByCache(p)
    \/ \E p \in Procs : ReleaseMutex(p)
    \/ \E p \in Procs : ReadArrowFile(p)
    \/ \E p \in Procs : AcquireExclusive(p)
    \/ \E p \in Procs : UnlinkStaleLru(p)
    \/ \E p \in Procs : ReleaseStale(p)
    \/ \E p \in Procs : AllocCache(p)
    \/ \E p \in Procs : AllocFieldCache(p)
    \/ \E p \in Procs : InspectLruTail(p)
    \/ \E p \in Procs : ReleaseReclaimed(p)
    \/ \E p \in Procs : RollbackField(p)
    \/ \E p \in Procs : Rollback(p)
    \/ \E p \in Procs : LinkHash(p)
    \/ \E p \in Procs : LinkLru(p)
    \/ Tick
    \/ \E f \in RewrittenFiles : Touch(f)
    \/ RestartBackends

SpecLocks == LockInit /\ [][LockNext]_vars

SpecPlan == PlanInit /\ [][PlanNext]_vars

(***************************************************************************)
(* Properties of the scan driver and of the statistics                     *)
(***************************************************************************)

\* the batch at position i (counted from 0) of the scan, and what it holds
ScanBatch(i) == af_state.rbatches[i + 1]
ScanBatchRows(i) == FileRows(ScanBatch(i).fname)[ScanBatch(i).rb_state.rb_index + 1]
ScanBatchField(i, anum) == ScanBatch(i).rb_state.fields[anum]

\* a row whose column holds v satisfies the qual
QualHolds(q, v) ==
    IF q.var_left THEN OperApply(q.opno, v, q.arg) ELSE OperApply(q.opno, q.arg, v)

\* every (min,max) pair a batch of the scan carries bounds the batch's values
StatsBoundRows ==
    \A i \in 0..(af_state.num_rbatches - 1) :
        \/ ScanBatchField(i, 1).stat_isnull
        \/ \A v \in ScanBatchRows(i) :
              ScanBatchField(i, 1).stat_min <= v /\ v <= ScanBatchField(i, 1).stat_max

\* C1: under statistics that bound the values of their batches, a batch the
\* scan passes over holds no row that satisfies the quals, and a batch
\* without statistics for the qual's column is never passed over.
C1_SkipIsConservative ==
    (sc_pc = "scan" /\ StatsBoundRows) =>
        \A k \in 1..Len(skipped) :
            /\ \A v \in ScanBatchRows(skipped[k]) :
                  \E n \in 1..Len(outer_quals) : ~QualHolds(outer_quals[n], v)
            /\ \A n \in 1..Len(outer_quals) :
                  ~ScanBatchField(skipped[k], outer_quals[n].varattno).stat_isnull

\* the scan is over increasing (file position, batch index)
InFileSetOrder ==
    \A i, j \in 0..(af_state.num_rbatches - 1) :
        i < j => \/ ScanBatch(i).fdesc < ScanBatch(j).fdesc
                 \/ /\ ScanBatch(i).fdesc = ScanBatch(j).fdesc
                    /\ ScanBatch(i).rb_state.rb_index < ScanBatch(j).rb_state.rb_index

\* the batches claimed so far
Claimed == 0..(Min(af_state.rbatch_index, af_state.num_rbatches) - 1)

\* C5: one cursor hands out the batches in (file-set, batch index) order:
\* the returned positions increase strictly, every claimed batch is either
\* passed over or returned exactly once, and NULL is returned exactly by
\* the calls made once every batch has been claimed.
C5_ReturnedInOrder ==
    sc_pc = "scan" =>
        /\ InFileSetOrder
        /\ \A k \in 1..Len(af_state.rbatches) :
              ft_files[ScanBatch(k - 1).fdesc] = ScanBatch(k - 1).fname
        /\ \A a, b \in 1..Len(returned) : a < b => returned[a] < returned[b]
        /\ \A a, b \in 1..Len(skipped) : a < b => skipped[a] < skipped[b]
        /\ Range(returned) \cup Range(skipped) = Claimed
        /\ Range(returned) \cap Range(skipped) = {}
        /\ (eof_calls > 0) = (af_state.rbatch_index > af_state.num_rbatches)
        /\ af_state.rbatch_index = Len(returned) + Len(skipped) + eof_calls

\* C5 witness: a scan of two files that passed over a batch between two
\* returned ones and then reached the end
C5_Witness ==
    /\ sc_pc = "scan"
    /\ Len(ft_files) = 2 /\ ft_files[1] # ft_files[2]
    /\ Len(returned) >= 2
    /\ \E k \in 1..Len(skipped) : returned[1] < skipped[k] /\ skipped[k] < returned[2]
    /\ ScanBatch(returned[1]).fdesc # ScanBatch(returned[Len(returned)]).fdesc
    /\ eof_calls > 0

\* the qual as a comparison with the column on the left
QualOpcode(q) == IF q.var_left THEN q.opno ELSE get_commutator(q.opno)

\* the range [min, max] holds no value v with  v opcode c
RangeExcludes(opcode, c, min, max) ==
    CASE opcode = ">"  -> max <= c
      [] opcode = ">=" -> max < c
      [] opcode = "<"  -> min >= c
      [] opcode = "<=" -> min > c
      [] opcode = "="  -> c < min \/ c > max

PruningQual ==
    /\ arrow_fdw_stats_hint_enabled
    /\ Len(outer_quals) = 1
    /\ QualOpcode(outer_quals[1]) \in {"<", "<=", "=", ">=", ">"}

ColGreater9 == << [opno |-> ">", var_left |-> TRUE, varattno |-> 1, arg |-> 9] >>

\* C9: under a comparison qual on a column, a claimed batch that carries
\* statistics for the column is passed over exactly when its [min, max]
\* range excludes the comparison; with min_values 1,5,10, max_values 4,8,15
\* and col > 9 the first call passes over batches 0 and 1 and returns batch 2.
C9_SkipIffRangeExcludes ==
    (sc_pc = "scan" /\ PruningQual) =>
        /\ \A i \in Claimed :
              ~ScanBatchField(i, 1).stat_isnull =>
                 ((i \in Range(skipped)) =
                    RangeExcludes(QualOpcode(outer_quals[1]), outer_quals[1].arg,
                                  ScanBatchField(i, 1).stat_min,
                                  ScanBatchField(i, 1).stat_max))
        /\ (ft_files = <<"plain">> /\ outer_quals = ColGreater9
              /\ af_state.rbatch_index > 0)
           => (skipped = <<0, 1>> /\ returned = <<2>>)

\* C9 witness: the scan of the example file under col > 9 has returned
\* batch 2 after passing over batches 0 and 1
C9_Witness ==
    /\ sc_pc = "scan" /\ PruningQual
    /\ ft_files = <<"plain">> /\ outer_quals = ColGreater9
    /\ skipped = <<0, 1>> /\ returned = <<2>>

\* a token that is a decimal integer: an optional sign and one digit or more
IsDecimalToken(tok) ==
    LET t == __trim(tok)
        d == IF t # <<>> /\ Head(t) = "-" THEN Tail(t) ELSE t
    IN  d # <<>> /\ \A k \in 1..Len(d) : d[k] \in Digits

\* the metadata of the column of a file is malformed for its batch count
MalformedStats(fname) ==
    LET field == ArrowFileOf(fname).footer.schema[1]
        n     == ArrowFileOf(fname).footer.num_recordBatches
    IN  /\ field.min_values # NULL /\ field.max_values # NULL
        /\ \E s \in {Deref(field.min_values), Deref(field.max_values)} :
              \/ Len(Tokens(s)) # n
              \/ \E k \in 1..Len(Tokens(s)) : ~IsDecimalToken(Tokens(s)[k])

\* C10: a scan over files of the table's column type never raises because
\* of malformed statistics, and every batch of a file whose min_values or
\* max_values is malformed has stat_isnull set for the field.
C10_MalformedStatsDisabled ==
    /\ (sc_pc = "error") => \E k \in 1..Len(ft_files) : ft_files[k] = "text"
    /\ (sc_pc = "scan") =>
          \A i \in 0..(af_state.num_rbatches - 1) :
              MalformedStats(ScanBatch(i).fname) => ScanBatchField(i, 1).stat_isnull

(***************************************************************************)
(* Properties of the metadata cache                                        *)
(***************************************************************************)

\* the state __buildArrowFileStateByFile makes of a file at a version
FileStateAt(fname, version) ==
    __buildArrowFileStateByFile(CacheFileInfo(fname, version)).af_state

\* st_mtim a is not older than st_mtim b
MtimeNotOlder(a, b) ==
    \/ a.tv_sec > b.tv_sec
    \/ a.tv_sec = b.tv_sec /\ a.tv_nsec >= b.tv_nsec

\* the leaders of a file in its hash slot
LeadersOf(stat_buf) ==
    LET slot == arrow_metadata_cache.hash_slots[arrowMetadataHashIndex(stat_buf)]
    IN  {i \in 1..Len(slot) :
            SameFile(stat_buf, arrow_metadata_cache.mcaches[slot[i]].stat_buf)}

\* what the backend asked lookupArrowMetadataCache for: the stat() of line
\* 1594 under the shared lock, the stat_buf of the state built from the
\* file under the exclusive lock
Requested(p) ==
    IF procs[p].pc = "hit" THEN procs[p].stat_buf
    ELSE Deref(procs[p].state).stat_buf

\* C2: whichever lock the backend holds and whatever the other backends
\* did, the entry lookupArrowMetadataCache returned is of the file the
\* caller named and its stored st_mtim is not older than the caller's.
C2_LookupReturnsFresh ==
    \A p \in Procs :
       procs[p].pc \in {"hit", "relooked"} =>
          /\ procs[p].found_stat.st_dev = Requested(p).st_dev
          /\ procs[p].found_stat.st_ino = Requested(p).st_ino
          /\ MtimeNotOlder(procs[p].found_stat.st_mtim, Requested(p).st_mtim)

\* C2 witness: one backend holds the shared lock on an entry that is newer
\* than the stat() it looked up with, while the file has been rewritten
\* again and the other backend has read it
C2_Witness ==
    \E p, q \in Procs :
       /\ procs[p].pc = "hit"
       /\ procs[p].found_stat.st_mtim # procs[p].stat_buf.st_mtim
       /\ procs[q].pc = "built"
       /\ procs[q].fname = procs[p].fname
       /\ Deref(procs[q].state).stat_buf.st_mtim # procs[p].found_stat.st_mtim

\* C3: a hash slot never holds two leaders of one file, and a backend that
\* missed a file under the shared lock and then ran the second lookup and
\* the insert on it, with no older leader in the way, has either found the
\* leader another backend inserted or inserted the only leader itself
\* (unless the allocator had no room).
C3_OneLeaderOneInserter ==
    /\ \A f \in CacheFileNames :
          Cardinality(LeadersOf(CacheFileInfo(f, 0).stat_buf)) <= 1
    /\ \A p \in Procs :
          (procs[p].state # NULL /\ procs[p].pc # "hit" /\ ~procs[p].stale) =>
             /\ procs[p].pc \in {"built", "relooked", "inserted", "uncached"}
             /\ procs[p].pc \in {"relooked", "inserted"} =>
                   Cardinality(LeadersOf(Requested(p))) = 1

\* C4: a backend that found an older leader of its file under the exclusive
\* lock has discarded it and inserted the chain it built (unless the
\* allocator had no room): the slot then holds exactly one leader of the
\* file, with the new st_mtim; and the batches a reader is given from the
\* cache are all of one version of the file.
C4_StaleChainReplaced ==
    /\ \A p \in Procs :
          procs[p].stale =>
             /\ procs[p].pc \in {"inserted", "uncached"}
             /\ procs[p].pc = "inserted" =>
                   /\ Cardinality(LeadersOf(Requested(p))) = 1
                   /\ arrow_metadata_cache.mcaches[procs[p].found].stat_buf
                         = Requested(p)
    /\ \A p \in Procs :
          procs[p].pc = "hit" =>
             \E v \in 0..MaxVersion :
                \A i \in 1..Len(Deref(procs[p].state).rb_list) :
                   \E k \in 1..Len(Deref(FileStateAt(procs[p].fname, v)).rb_list) :
                      Deref(procs[p].state).rb_list[i]
                         = Deref(FileStateAt(procs[p].fname, v)).rb_list[k]


\* the state a backend holds is the one __buildArrowFileStateByFile makes
\* of its file at the version the entry it found was inserted for
SameAsBuiltFromFile(p) ==
    \E v \in 0..MaxVersion :
       /\ CacheFileInfo(procs[p].fname, v).stat_buf = procs[p].found_stat
       /\ procs[p].state = FileStateAt(procs[p].fname, v)

\* C6: the state __buildArrowFileStateByCache makes of a chain equals the
\* state built from the raw file the chain was inserted for: the same
\* batches in the same order and, field by field and child by child, the
\* same type, type modifier, type options, counts, buffers and statistics.
C6_CacheRoundTrip ==
    \A p \in Procs : procs[p].pc = "hit" => SameAsBuiltFromFile(p)

\* the entries of block b that carry the ACTIVE magic
ActiveIn(b) ==
    LET c == arrow_metadata_cache
    IN  CASE c.blocks[b].unitsz = "m" ->
               {r \in MRefs : RefBlock(r) = b
                   /\ c.mcaches[r].magic = ARROW_METADATA_CACHE_ACTIVE_MAGIC}
          [] c.blocks[b].unitsz = "f" ->
               {r \in FRefs : RefBlock(r) = b
                   /\ c.fcaches[r].magic = ARROW_METADATA_CACHE_ACTIVE_MAGIC}
          [] OTHER -> {}

InList(list, r) == \E i \in 1..Len(list) : list[i] = r

\* every block counts its ACTIVE entries, and an entry of a carved block
\* that is not ACTIVE is on the free list of its kind
FreeListsConsistent ==
    LET c == arrow_metadata_cache
    IN  \A b \in Blocks :
           /\ c.blocks[b].n_actives = Cardinality(ActiveIn(b))
           /\ (c.blocks[b].unitsz = "m" /\ ~InList(c.free_blocks, b)) =>
                 \A r \in MRefs :
                    (RefBlock(r) = b /\ r \notin ActiveIn(b)) =>
                       InList(c.free_mcaches, r)
           /\ (c.blocks[b].unitsz = "f" /\ ~InList(c.free_blocks, b)) =>
                 \A r \in FRefs :
                    (RefBlock(r) = b /\ r \notin ActiveIn(b)) =>
                       InList(c.free_fcaches, r)

\* no entry of the file is linked to a hash slot or to the LRU list
NothingLinkedOf(stat_buf) ==
    LET c == arrow_metadata_cache
    IN  /\ LeadersOf(stat_buf) = {}
        /\ \A i \in 1..Len(c.lru_list) :
              ~SameFile(stat_buf, c.mcaches[c.lru_list[i]].stat_buf)

\* C7: when __buildArrowMetadataCacheNoLock gave up because an allocation
\* returned NULL, then, with the exclusive lock still held, the head of the
\* chain it had begun is FREE, every block counts its ACTIVE entries and
\* every other entry is on its free list, no entry of the file is linked to
\* a hash slot or the LRU list, and the backend still holds the state it
\* built from the file.
C7_FailedInsertRolledBack ==
    \A p \in Procs :
       procs[p].pc = "uncached" =>
          /\ ~arrow_metadata_cache.corrupt
          /\ procs[p].found # NULLREF =>
                arrow_metadata_cache.mcaches[procs[p].found].magic
                   = ARROW_METADATA_CACHE_FREE_MAGIC
          /\ FreeListsConsistent
          /\ NothingLinkedOf(Requested(p))
          /\ \E v \in 0..MaxVersion :
                procs[p].state = FileStateAt(procs[p].fname, v)

\* the LRU tail was used within the last 30 seconds
TailIsYoung ==
    LET c == arrow_metadata_cache
        tail == c.mcaches[c.lru_list[Len(c.lru_list)]]
    IN  /\ c.lru_list # <<>>
        /\ (now.tv_sec - tail.lru_tv.tv_sec) * 1000000
              + (now.tv_usec - tail.lru_tv.tv_usec) <= 30000000

\* the case of C8 for an insert: no leader of the backend's file is linked,
\* no cache entry and no block is free and the LRU tail is young
NoRoomForCache(p) ==
    /\ LeadersOf(Requested(p)) = {}
    /\ arrow_metadata_cache.free_mcaches = <<>>
    /\ arrow_metadata_cache.free_blocks = <<>>
    /\ TailIsYoung

\* C8: with no free entry of the kind asked for, no free block and a LRU
\* tail used within the last 30 seconds, either allocator returns NULL and
\* leaves the cache as it was; and the backend whose insert met this goes
\* on with the state it built from the file, the cache unchanged.
C8_YoungTailAllocFails ==
    [][ /\ (Running /\ arrow_metadata_cache.free_blocks = <<>> /\ TailIsYoung) =>
           \A garbage \in {NULLREF, WILD} :
              /\ arrow_metadata_cache.free_mcaches = <<>> =>
                    __allocMetadataCache(arrow_metadata_cache, now, garbage, build)
                       = [ref |-> NULLREF, cache |-> arrow_metadata_cache,
                          fault |-> FALSE]
              /\ arrow_metadata_cache.free_fcaches = <<>> =>
                    __allocMetadataFieldCache(arrow_metadata_cache, now, garbage)
                       = [ref |-> NULLREF, cache |-> arrow_metadata_cache,
                          fault |-> FALSE]
        /\ \A p \in Procs :
              (procs[p].pc = "built" /\ procs'[p].pc \notin {"built", "idle"}
                  /\ NoRoomForCache(p)) =>
                 /\ procs'[p].pc = "uncached"
                 /\ procs'[p].state = procs[p].state
                 /\ arrow_metadata_cache' = arrow_metadata_cache
                 /\ postmaster' = postmaster ]_vars

\* C8 witness: a backend was refused a cache entry for the first batch of
\* its file while entries of other files, the youngest used within the last
\* 30 seconds, fill the cache
C8_Witness ==
    \E p \in Procs :
       /\ procs[p].pc = "uncached"
       /\ procs[p].found = NULLREF
       /\ NoRoomForCache(p)
       /\ arrow_metadata_cache.free_fcaches = <<>>
       /\ Len(arrow_metadata_cache.lru_list) >= 2


(***************************************************************************)
(* Properties of the record-batch state builder                            *)
(***************************************************************************)

\* the message under build, and what the builder made of it
BuildSchema == Deref(rb_input).schema
BuildBatch == Deref(rb_input).rbatch
BuildDone == rb_result # NULL
BuildAccepted == rb_result # NULL /\ ~Deref(rb_result).raised
BuildRaised == rb_result # NULL /\ Deref(rb_result).raised

\* fields, or field states, in pre-order
RECURSIVE PreOrder(_)
PreOrder(fields) ==
    IF fields = <<>> THEN <<>>
    ELSE << Head(fields) >> \o PreOrder(Head(fields).children)
                            \o PreOrder(Tail(fields))

VariableLengthTags == {"Utf8", "Binary", "LargeUtf8", "LargeBinary"}

\* the buffers of a field by the Arrow columnar format
ArrowBuffersOf(field) ==
    IF field.tag = "Struct" THEN 1
    ELSE IF field.tag \in VariableLengthTags THEN 3
    ELSE 2

\* the buffers of the first n fields of a pre-order list
RECURSIVE ArrowBuffersBefore(_, _)
ArrowBuffersBefore(flat, n) ==
    IF n = 0 THEN 0
    ELSE ArrowBuffersBefore(flat, n - 1) + ArrowBuffersOf(flat[n])

\* field state st holds node fnode and the buffers from position b on
HoldsNodeAndBuffers(st, field, fnode, buffers, b) ==
    /\ st.nitems = fnode.length
    /\ st.null_count = fnode.null_count
    /\ fnode.null_count > 0 =>
          /\ st.nullmap_offset = buffers[b].offset
          /\ st.nullmap_length = buffers[b].length
    /\ field.tag # "Struct" =>
          /\ st.values_offset = buffers[b + 1].offset
          /\ st.values_length = buffers[b + 1].length
    /\ field.tag \in VariableLengthTags =>
          /\ st.extra_offset = buffers[b + 2].offset
          /\ st.extra_length = buffers[b + 2].length

\* C11: an accepted batch has exactly one field node per field and 1, 2 or
\* 3 buffers per field (Struct, fixed-width, variable-length), no more and
\* no fewer, and every field state holds the node and the buffers of its
\* place in pre-order; a batch with too few or too many is refused.
C11_BuildConsumesExactly ==
    BuildAccepted =>
        LET flat == PreOrder(BuildSchema)
            st   == PreOrder(Deref(rb_result).rb_state.fields)
        IN  /\ Len(st) = Len(flat)
            /\ Len(BuildBatch.nodes) = Len(flat)
            /\ Len(BuildBatch.buffers) = ArrowBuffersBefore(flat, Len(flat))
            /\ \A i \in 1..Len(flat) :
                  HoldsNodeAndBuffers(st[i], flat[i], BuildBatch.nodes[i],
                                      BuildBatch.buffers,
                                      ArrowBuffersBefore(flat, i - 1) + 1)

\* C11 witness: a Struct of a fixed-width and a variable-length child with
\* nulls is accepted
C11_Witness ==
    /\ BuildAccepted
    /\ Len(BuildSchema) = 1
    /\ BuildSchema[1].tag = "Struct"
    /\ Len(BuildSchema[1].children) = 2
    /\ BuildBatch.nodes[1].null_count > 0

\* the batch holds one column of a supported type without children, with
\* one field node and as many buffers as the type takes, uncompressed
OneScalarColumn ==
    /\ Len(BuildSchema) = 1
    /\ BuildSchema[1].children = <<>>
    /\ ScalarTypeBinding(BuildSchema[1]).ok
    /\ Len(BuildBatch.nodes) = 1
    /\ Len(BuildBatch.buffers) = ArrowBuffersOf(BuildSchema[1])
    /\ ~BuildBatch.compression

Aligned(offset) == offset % MAXIMUM_ALIGNOF = 0

CeilDiv8(n) == (n + 7) \div 8

\* the least values length of C12: unit_size x row_count, unit_size x
\* (row_count + 1) for variable-length offsets, ceil(row_count / 8) for Bool
LeastValuesLength(field, nitems) ==
    LET unitsz == ScalarTypeBinding(field).unitsz
    IN  IF field.tag = "Bool" THEN CeilDiv8(nitems)
        ELSE IF field.tag \in VariableLengthTags THEN unitsz * (nitems + 1)
        ELSE unitsz * nitems

\* the buffers of the column are corrupt by the rules of C12
CorruptBuffers(field, fnode, buffers) ==
    \/ /\ fnode.null_count > 0
       /\ \/ buffers[1].length < CeilDiv8(fnode.length)
          \/ ~Aligned(buffers[1].offset)
    \/ buffers[2].length < LeastValuesLength(field, fnode.length)
    \/ ~Aligned(buffers[2].offset)
    \/ /\ field.tag \in VariableLengthTags
       /\ ~Aligned(buffers[3].offset)

\* C12: the buffers of a column are refused if and only if the nullmap
\* (with nulls) is shorter than ceil(row_count/8) or misaligned, the values
\* buffer is shorter than its least length or misaligned, or the extra
\* buffer is misaligned.
C12_BuffersRejectedIff ==
    BuildDone /\ OneScalarColumn =>
        (BuildRaised <=> CorruptBuffers(BuildSchema[1], BuildBatch.nodes[1],
                                        BuildBatch.buffers))

\* the three offsets of a field state are multiples of the alignment, and
\* 0 where the field state has no such buffer recorded
AlignedFieldState(st) ==
    /\ Aligned(st.nullmap_offset)
    /\ Aligned(st.values_offset)
    /\ Aligned(st.extra_offset)
    /\ st.null_count = 0 => st.nullmap_offset = 0
    /\ st.attopts.unitsz = 0 => st.values_offset = 0
    /\ st.attopts.tag \notin VariableLengthTags => st.extra_offset = 0

\* every field state of a file state, children included
FieldStatesOf(state) ==
    UNION {Range(PreOrder(state.rb_list[i].fields)) :
              i \in 1..Len(state.rb_list)}

EmptyBatch ==
    /\ BuildBatch.length = 0
    /\ \A i \in 1..Len(BuildBatch.nodes) :
          BuildBatch.nodes[i].length = 0 /\ BuildBatch.nodes[i].null_count = 0
    /\ \A k \in 1..Len(BuildBatch.buffers) :
          BuildBatch.buffers[k].length = 0 /\ Aligned(BuildBatch.buffers[k].offset)

\* C14: a batch of no rows whose buffers all have length zero is accepted
\* for every supported type, the variable-length ones included.
C14_EmptyBatchAccepted ==
    BuildDone /\ OneScalarColumn /\ EmptyBatch => BuildAccepted

\* the mapping table of C16: whether (tag, sub-selector) is listed, the
\* unit size and the extra-buffer flag listed for it
TableEntry(unitsz, extra) == [ok |-> TRUE, unitsz |-> unitsz, extra |-> extra]
NotInTable == [ok |-> FALSE, unitsz |-> 0, extra |-> FALSE]
ListedBinding(field) ==
    CASE field.tag = "Int" ->
            IF field.bitWidth \in {8, 16, 32, 64}
            THEN TableEntry(field.bitWidth \div 8, FALSE) ELSE NotInTable
      [] field.tag = "FloatingPoint" ->
            (CASE field.precision = "Half" -> TableEntry(2, FALSE)
               [] field.precision = "Single" -> TableEntry(4, FALSE)
               [] field.precision = "Double" -> TableEntry(8, FALSE)
               [] OTHER -> NotInTable)
      [] field.tag = "Bool" -> TableEntry(-1, FALSE)
      [] field.tag = "Decimal" ->
            IF field.bitWidth = 128 THEN TableEntry(16, FALSE) ELSE NotInTable
      [] field.tag = "Date" ->
            (CASE field.unit = "Day" -> TableEntry(4, FALSE)
               [] field.unit = "MilliSecond" -> TableEntry(8, FALSE)
               [] OTHER -> NotInTable)
      [] field.tag = "Time" ->
            (CASE field.unit \in {"Second", "MilliSecond"} -> TableEntry(4, FALSE)
               [] field.unit \in {"MicroSecond", "NanoSecond"} -> TableEntry(8, FALSE)
               [] OTHER -> NotInTable)
      [] field.tag = "Timestamp" ->
            IF field.unit \in {"Second", "MilliSecond", "MicroSecond", "NanoSecond"}
            THEN TableEntry(8, FALSE) ELSE NotInTable
      [] field.tag = "Interval" ->
            (CASE field.unit = "Year_Month" -> TableEntry(4, FALSE)
               [] field.unit = "Day_Time" -> TableEntry(8, FALSE)
               [] OTHER -> NotInTable)
      [] field.tag = "FixedSizeBinary" ->
            IF field.byteWidth \in 1..BLCKSZ
            THEN TableEntry(field.byteWidth, FALSE) ELSE NotInTable
      [] field.tag \in {"Utf8", "Binary"} -> TableEntry(4, TRUE)
      [] field.tag \in {"LargeUtf8", "LargeBinary"} -> TableEntry(8, TRUE)
      [] field.tag = "List" -> TableEntry(4, FALSE)
      [] field.tag = "LargeList" -> TableEntry(8, FALSE)
      [] field.tag = "Struct" -> TableEntry(0, FALSE)
      [] OTHER -> NotInTable

\* the message holds one column whose children, if any, are well formed,
\* with the field nodes and buffers of its type, all of them large
OneRoomyColumn ==
    /\ Len(BuildSchema) = 1
    /\ \A j \in 1..Len(BuildSchema[1].children) :
          /\ BuildSchema[1].children[j].children = <<>>
          /\ ScalarTypeBinding(BuildSchema[1].children[j]).ok
    /\ BuildSchema[1].tag \in {"List", "LargeList"} =>
          Len(BuildSchema[1].children) = 1
    /\ \E nc \in {0, 1} :
          BuildBatch =
             RoomyBatch(Len(PreOrder(BuildSchema)),
                        ArrowBuffersBefore(PreOrder(BuildSchema),
                                           Len(PreOrder(BuildSchema))),
                        nc)

\* the values of the column at the listed unit size fit its buffer
FitsRoomy(listed) ==
    listed.unitsz * (BuildBatch.nodes[1].length + 1) <= GoodBufferSize

\* C16: a column whose (tag, sub-selector) is listed is bound with the
\* listed unit size and takes an extra buffer exactly when the table says
\* so; a column whose sub-selector is not listed is refused.
C16_BinderTable ==
    BuildDone /\ OneRoomyColumn =>
        LET listed == ListedBinding(BuildSchema[1])
            fstate == Deref(rb_result).rb_state.fields[1]
        IN  IF ~listed.ok THEN BuildRaised
            ELSE /\ FitsRoomy(listed) => BuildAccepted
                 /\ BuildAccepted =>
                       /\ fstate.attopts.unitsz = listed.unitsz
                       /\ (fstate.extra_length > 0) = listed.extra


(***************************************************************************)
(* Properties of BuildArrowFileState on files that are empty, gone or of   *)
(* another schema                                                          *)
(***************************************************************************)

\* backend p takes a step of its call while the postmaster is up
StepsFrom(p, pcs) ==
    /\ postmaster = "up"
    /\ procs[p].pc \in pcs
    /\ procs'[p] # procs[p]

HoldsLock(p, mtx) == p \in mtx.exclusive \cup mtx.shared

\* the file has a footer without record batches
HasNoRecordBatch(fname) ==
    CacheFileInfo(fname, 0).footer.num_recordBatches = 0

\* C15: opening a well-formed file without record batches yields a file
\* state whose batch list is empty, not an absent state and not an error.
C15_EmptyFileHasState ==
    [][\A p \in Procs :
          /\ StepsFrom(p, {"read"})
          /\ HasNoRecordBatch(procs[p].fname)
          /\ procs[p].fname \notin unlinked
          => /\ procs'[p].pc = "built"
             /\ procs'[p].state # NULL
             /\ Deref(procs'[p].state).rb_list = <<>>]_vars

\* C19: a call on a file that is gone, whether it went before stat() or
\* before the file is opened, ends without a state and without an error,
\* with no lock held and the cache as it was.
C19_VanishedFileSkipped ==
    [][\A p \in Procs :
          /\ StepsFrom(p, {"idle", "read"})
          /\ procs'[p].fname \in unlinked \/ procs[p].fname \in unlinked
          => /\ procs'[p].pc = "idle"
             /\ ~HoldsLock(p, mutex')
             /\ arrow_metadata_cache' = arrow_metadata_cache]_vars

\* the table has as many columns as the file has top-level fields and
\* every column has the type its field is bound to
TableMatchesFile(tupdesc, fname) ==
    LET schema == CacheFileInfo(fname, 0).footer.schema
        Bound(field) ==
            CASE field.tag = "Struct" -> "composite"
              [] field.tag \in {"List", "LargeList"} ->
                    get_array_type(ScalarTypeBinding(field.children[1]).atttypid)
              [] OTHER -> ScalarTypeBinding(field).atttypid
    IN  /\ Len(tupdesc) = Len(schema)
        /\ \A j \in 1..Len(schema) : tupdesc[j] = Bound(schema[j])

OptionsList == Deref(opt_input).options_list
OptionsFsys == Deref(opt_input).fsys
ExtractDone == opt_result # NULL
Extracted == Deref(opt_result)

\* the paths the "file" and "files" options name, in option order: every
\* comma-separated element once, trimmed
RECURSIVE LiteralPaths(_)
LiteralPaths(options_list) ==
    IF options_list = <<>> THEN <<>>
    ELSE LET defel == Head(options_list)
             Trimmed(toks) == [i \in 1..Len(toks) |-> __trim(toks[i])]
         IN  (CASE defel.defname = "file" -> << defel.arg >>
                [] defel.defname = "files" -> Trimmed(Tokens(defel.arg))
                [] OTHER -> <<>>)
             \o LiteralPaths(Tail(options_list))

\* the argument of the last option of a name, NULL without one
RECURSIVE LastOption(_, _)
LastOption(options_list, defname) ==
    IF options_list = <<>> THEN NULL
    ELSE IF options_list[Len(options_list)].defname = defname
    THEN Ptr(options_list[Len(options_list)].arg)
    ELSE LastOption(SubSeq(options_list, 1, Len(options_list) - 1), defname)

\* the part of a name after its last dot, NULL without a dot
RECURSIVE Extension(_)
Extension(name) ==
    IF name = <<>> THEN NULL
    ELSE IF name[Len(name)] = "." THEN Ptr(<<>>)
    ELSE LET rest == Extension(SubSeq(name, 1, Len(name) - 1))
         IN  IF rest = NULL THEN NULL
             ELSE Ptr(Append(Deref(rest), name[Len(name)]))

\* the accepted entries of the directory, in scan order, as paths
AcceptedEntries(options_list, fsys) ==
    LET dir == LastOption(options_list, "dir")
        suffix == LastOption(options_list, "suffix")
        PathOf(d_name) == Deref(dir) \o << "/" >> \o d_name
        Accepted(d_name) ==
            /\ d_name \notin {<< "." >>, << ".", "." >>}
            /\ suffix # NULL => Extension(d_name) = suffix
            /\ PathOf(d_name) \in fsys.readable
        Kept(entries) == SelectSeq(entries, Accepted)
    IN  IF dir = NULL \/ Deref(dir) \notin DOMAIN fsys.dirs THEN <<>>
        ELSE [i \in 1..Len(Kept(fsys.dirs[Deref(dir)])) |->
                PathOf(Kept(fsys.dirs[Deref(dir)])[i])]

\* C17: the resolver ends on every option list, and the list it returns
\* is the literal paths in option order followed by the accepted entries
\* of the directory in scan order.
C17_ResolverReturnsList ==
    ExtractDone =>
        /\ Extracted.how # "loop"
        /\ Extracted.how = "ok" =>
              Extracted.filesList =
                 LiteralPaths(OptionsList)
                 \o AcceptedEntries(OptionsList, OptionsFsys)

\* the parallel_workers options of a list
ParallelWorkersOptions(options_list) ==
    SelectSeq(options_list, LAMBDA defel : defel.defname = "parallel_workers")

\* the integer a parallel_workers value of the model denotes
WorkersValue(arg) ==
    CASE arg = << "2" >> -> 2
      [] arg = << "0" >> -> 0
      [] arg = << "-", "1" >> -> -1

\* C18: a list with more than one parallel_workers option is refused,
\* whatever the values; with exactly one, its value is returned.
C18_ParallelWorkersOnce ==
    ExtractDone /\ Extracted.how # "loop" =>
        LET given == ParallelWorkersOptions(OptionsList)
        IN  /\ Len(given) > 1 => Extracted.how = "error"
            /\ Len(given) = 1 /\ Extracted.how = "ok" =>
                  Extracted.parallel_nworkers = WorkersValue(given[1].arg)

(***************************************************************************)
(* Properties of the size estimate of the planner                          *)
(***************************************************************************)

PlanDone == plan_result # NULL /\ ~Deref(plan_result).raised

RECURSIVE SumOfSeq(_)
SumOfSeq(s) == IF s = <<>> THEN 0 ELSE Head(s) + SumOfSeq(Tail(s))

\* every record batch of every file of the table that has a state, in the
\* order of the files
PlanBatches ==
    LET states == PlanStates(Deref(plan_input))
    IN  SeqConcat([n \in 1..Len(states) |->
                      IF states[n].af_state = NULL THEN <<>>
                      ELSE Deref(states[n].af_state).rb_list])

\* the bytes of one field state by itself
OwnBytes(fstate) ==
    (IF fstate.null_count > 0 THEN fstate.nullmap_length ELSE 0)
    + fstate.values_length + fstate.extra_length

\* the bytes of a column: those of its field state and of every field
\* state below it
ColumnBytes(fstate) ==
    LET flat == PreOrder(<< fstate >>)
    IN  SumOfSeq([i \in 1..Len(flat) |-> OwnBytes(flat[i])])

WholeRowReferenced ==
    (0 - FirstLowInvalidHeapAttributeNumber) \in Deref(plan_input).referenced

\* the bytes of one batch that the referenced columns take
ReferencedBytes(rb_state) ==
    SumOfSeq([j \in 1..rb_state.nfields |->
                IF (j - FirstLowInvalidHeapAttributeNumber)
                       \in Deref(plan_input).referenced
                THEN ColumnBytes(rb_state.fields[j])
                ELSE 0])

HoldsMutex(p) == p \in mutex.exclusive \cup mutex.shared

WaitsForMutex(p) == backends[p].pc \in {"lock_shared", "lock_excl"}

WaitsForSpin(p) == backends[p].pc \in DOMAIN SpinAcquirePcs

\* the backend stands at a lock operation that cannot go on
Blocked(p) ==
    \/ backends[p].pc = "lock_shared" /\ LWLockConflicts(mutex, LW_SHARED)
    \/ backends[p].pc = "lock_excl" /\ LWLockConflicts(mutex, LW_EXCLUSIVE)
    \/ WaitsForSpin(p) /\ lru_lock # 0

\* C22: the two locks are taken in the order rw-lock, spin lock: a backend
\* that holds or waits for the spin lock holds the rw-lock and is not
\* acquiring or waiting for it (so the spin lock is taken after the rw-lock
\* and released before it), and in no state are all backends blocked on
\* the locks.
C22_LockOrder ==
    /\ \A p \in Procs :
          /\ lru_lock = p => HoldsMutex(p) /\ ~WaitsForMutex(p)
          /\ WaitsForSpin(p) => HoldsMutex(p)
    /\ lru_lock # 0 => lru_lock \in Procs /\ ~WaitsForSpin(lru_lock)
    /\ ~(\A p \in Procs : Blocked(p))

\* C22 witness: a backend holds the shared rw-lock and the spin lock while
\* another, holding the shared rw-lock too, waits for the spin lock
C22_Witness ==
    \E p, q \in Procs :
       /\ p # q
       /\ lru_lock = p /\ backends[p].pc = "touch"
       /\ mutex.shared = {p, q}
       /\ backends[q].pc = "touch_spin" /\ Blocked(q)

\* the backend is inside stat(), or inside the open and read of the file
PerformsIO(p) == backends[p].pc \in {"stat", "read"}

\* C23: a backend that performs stat, open or the read of the footer for
\* BuildArrowFileState holds neither the rw-lock, in any mode, nor the spin
\* lock.
C23_NoLockAcrossIO ==
    \A p \in Procs : PerformsIO(p) => ~HoldsMutex(p) /\ lru_lock # p

\* C23 witness: a backend reads a file, after it looked the file up under
\* the shared lock, while another holds the exclusive lock and the spin
\* lock
C23_Witness ==
    \E p, q \in Procs :
       /\ backends[p].pc = "read"
       /\ mutex.exclusive = {q} /\ lru_lock = q
       /\ backends[q].pc = "link_lru"

\* what the exclusive rw-lock protects: the hash slots, the free lists, the
\* block headers and the magic of every entry
StructureOf(c) ==
    << c.hash_slots, c.free_blocks, c.free_mcaches, c.free_fcaches, c.blocks,
       [r \in MRefs |-> c.mcaches[r].magic],
       [r \in FRefs |-> c.fcaches[r].magic] >>

\* what the spin lock protects: the LRU list and the lru_tv of every entry
LruOf(c) == << c.lru_list, [r \in MRefs |-> c.mcaches[r].lru_tv] >>

\* the cache but for what the spin lock protects
ButLruOf(c) ==
    [c EXCEPT !.lru_list = <<>>,
              !.mcaches = [r \in MRefs |-> [@[r] EXCEPT !.lru_tv = ZeroTimeval]]]

\* the backend that takes the step
Acts(p) == backends'[p] # backends[p]

\* C24: every change of a hash slot, a free list, a block header or a magic
\* is made by a backend that holds the rw-lock exclusively; every change of
\* the LRU list or of an lru_tv is made by a backend that holds the spin
\* lock; a backend that holds the rw-lock in shared mode only changes
\* nothing of the cache but the LRU list and lru_tv.
C24_ChangesUnderLocks ==
    [][postmaster = "up" =>
         /\ StructureOf(arrow_metadata_cache') # StructureOf(arrow_metadata_cache)
               => \E p \in Procs : Acts(p) /\ mutex.exclusive = {p}
         /\ LruOf(arrow_metadata_cache') # LruOf(arrow_metadata_cache)
               => \E p \in Procs : Acts(p) /\ lru_lock = p
         /\ \A p \in Procs :
               Acts(p) /\ p \notin mutex.exclusive =>
                  ButLruOf(arrow_metadata_cache') = ButLruOf(arrow_metadata_cache)
         /\ arrow_metadata_cache' # arrow_metadata_cache
               => \E p \in Procs : Acts(p) /\ HoldsMutex(p)
      ]_vars

\* C24 witness: a backend that holds the rw-lock in shared mode has moved
\* an entry from behind another to the head of the LRU list and set its
\* lru_tv, under the spin lock
C24_Witness ==
    \E p \in Procs :
       /\ backends[p].pc = "touch_unspin"
       /\ mutex.shared = {p} /\ mutex.exclusive = {}
       /\ lru_lock = p
       /\ Len(arrow_metadata_cache.lru_list) = 2
       /\ arrow_metadata_cache.lru_list[1] = backends[p].mcache
       /\ arrow_metadata_cache.mcaches[backends[p].mcache].lru_tv = now
       /\ arrow_metadata_cache.mcaches[arrow_metadata_cache.lru_list[2]].lru_tv.tv_sec
             > 0
       /\ now.tv_sec > arrow_metadata_cache.mcaches[arrow_metadata_cache.lru_list[2]].lru_tv.tv_sec

(***************************************************************************)
(* Properties of the entries, the blocks and the lists of the cache        *)
(***************************************************************************)

\* the leaders: the entries linked in a hash slot
HashLeaders(c) ==
    UNION {{c.hash_slots[h][i] : i \in DOMAIN c.hash_slots[h]} :
              h \in DOMAIN c.hash_slots}

\* the entries next leads to from m, m included, in at most n steps
RECURSIVE ChainFrom(_, _, _)
ChainFrom(c, m, n) ==
    IF m \notin MRefs \/ n = 0 THEN {}
    ELSE {m} \cup ChainFrom(c, c.mcaches[m].next, n - 1)

ReachableEntries(c) ==
    UNION {ChainFrom(c, m, NBlocks * MCachesPerBlock) : m \in HashLeaders(c)}

\* the batch entries of the blocks that are carved into batch entries now
CarvedEntries(c) ==
    {r \in MRefs : /\ c.blocks[RefBlock(r)].unitsz = "m"
                   /\ \A i \in DOMAIN c.free_blocks : c.free_blocks[i] # RefBlock(r)}

OnList(list, r) == \E i \in DOMAIN list : list[i] = r

NoExclusiveHolder == postmaster = "up" /\ mutex.exclusive = {}

\* C25: while no backend holds the rw-lock exclusively, a batch entry is
\* ACTIVE exactly when it is linked in a hash slot or next leads to it from
\* an entry that is, and every other carved batch entry is FREE and on
\* free_mcaches.
C25_ActiveIffReachable ==
    NoExclusiveHolder =>
       \A r \in CarvedEntries(arrow_metadata_cache) :
          /\ arrow_metadata_cache.mcaches[r].magic = ARROW_METADATA_CACHE_ACTIVE_MAGIC
                <=> r \in ReachableEntries(arrow_metadata_cache)
          /\ r \notin ReachableEntries(arrow_metadata_cache) =>
                /\ arrow_metadata_cache.mcaches[r].magic = ARROW_METADATA_CACHE_FREE_MAGIC
                /\ OnList(arrow_metadata_cache.free_mcaches, r)

\* the ACTIVE entries among the slots of block b
ActiveEntriesOf(c, b) ==
    IF c.blocks[b].unitsz = "m"
    THEN {r \in MRefs : /\ RefBlock(r) = b
                        /\ c.mcaches[r].magic = ARROW_METADATA_CACHE_ACTIVE_MAGIC}
    ELSE IF c.blocks[b].unitsz = "f"
    THEN {r \in FRefs : /\ RefBlock(r) = b
                        /\ c.fcaches[r].magic = ARROW_METADATA_CACHE_ACTIVE_MAGIC}
    ELSE {}

\* C26: n_actives of every block is the number of ACTIVE entries carved from
\* it, and a block is on free_blocks exactly when that number is zero; no
\* release has pushed a node onto a second list or taken a counter below
\* zero.
C26_LiveCount ==
    postmaster = "up" =>
       /\ ~arrow_metadata_cache.corrupt
       /\ \A b \in Blocks :
             /\ arrow_metadata_cache.blocks[b].n_actives
                   = Cardinality(ActiveEntriesOf(arrow_metadata_cache, b))
             /\ OnList(arrow_metadata_cache.free_blocks, b)
                   <=> arrow_metadata_cache.blocks[b].n_actives = 0

\* the slots of block b that are on the free list of the kind of b
FreeListedSlotsOf(c, b) ==
    {r \in MRefs \cup FRefs :
        /\ RefBlock(r) = b
        /\ \/ c.blocks[b].unitsz = "m" /\ OnList(c.free_mcaches, r)
           \/ c.blocks[b].unitsz = "f" /\ OnList(c.free_fcaches, r)}

SlotsOf(b) == {r \in MRefs \cup FRefs : RefBlock(r) = b}

\* the blocks whose n_actives a step of a backend takes from above zero to
\* zero
BlocksEmptied ==
    {b \in Blocks : /\ postmaster = "up"
                    /\ arrow_metadata_cache.blocks[b].n_actives > 0
                    /\ arrow_metadata_cache'.blocks[b].n_actives = 0}

\* C27 as stated: when a release takes n_actives of a block to zero, the
\* block is on free_blocks afterwards and every slot carved from it is on
\* the free list of its kind.
C27_SlotsOnFreeList ==
    [][\A b \in BlocksEmptied :
          /\ OnList(arrow_metadata_cache'.free_blocks, b)
          /\ FreeListedSlotsOf(arrow_metadata_cache', b) = SlotsOf(b)
      ]_vars

\* C27 as amended: when a release takes n_actives of a block to zero, the
\* block is on free_blocks afterwards and no slot carved from it is on the
\* free list of its kind.
C27_SlotsOffFreeList ==
    [][\A b \in BlocksEmptied :
          /\ OnList(arrow_metadata_cache'.free_blocks, b)
          /\ FreeListedSlotsOf(arrow_metadata_cache', b) = {}
      ]_vars

\* C27 witness: a reclaim, called with free_blocks empty, has released a
\* chain and with it the last live entry of a block
C27_Witness ==
    \E p \in Procs :
       /\ backends[p].pc \in {"alloc_m_blocks", "alloc_f_blocks"}
       /\ \E b \in Blocks :
             /\ arrow_metadata_cache.free_blocks = <<b>>
             /\ arrow_metadata_cache.blocks[b].unitsz # "none"
             /\ arrow_metadata_cache.blocks[b].n_actives = 0
             /\ \E r \in SlotsOf(b) :
                   OnList(arrow_metadata_cache.free_mcaches
                             \o arrow_metadata_cache.free_fcaches, r) = FALSE

\* how often r is on the list
CountOnList(list, r) == Cardinality({i \in DOMAIN list : list[i] = r})

\* how often r is linked in the hash slots
CountInHash(c, r) ==
    Cardinality({<<h, i>> \in UNION {{<<h, j>> : j \in DOMAIN c.hash_slots[h]} :
                                         h \in DOMAIN c.hash_slots} :
                    c.hash_slots[h][i] = r})

\* the ACTIVE batch entries that next leads to from an ACTIVE entry
Followers(c) ==
    {c.mcaches[r].next : r \in {x \in MRefs :
        c.mcaches[x].magic = ARROW_METADATA_CACHE_ACTIVE_MAGIC}} \cap MRefs

\* C28: while no backend holds the rw-lock exclusively, an entry linked in
\* a hash slot is linked once, in the slot of arrowMetadataHashIndex of its
\* stat_buf, and once in the LRU list; the LRU list holds these entries and
\* no other; and no entry that next of a live entry leads to is linked in a
\* hash slot or in the LRU list, so that the chain a release walks from a
\* leader holds its followers and nothing else.
C28_OnlyLeadersLinked ==
    NoExclusiveHolder =>
       /\ \A h \in DOMAIN arrow_metadata_cache.hash_slots :
             \A i \in DOMAIN arrow_metadata_cache.hash_slots[h] :
                LET m == arrow_metadata_cache.hash_slots[h][i]
                IN  /\ m \in MRefs
                    /\ arrowMetadataHashIndex(arrow_metadata_cache.mcaches[m].stat_buf) = h
                    /\ CountInHash(arrow_metadata_cache, m) = 1
                    /\ CountOnList(arrow_metadata_cache.lru_list, m) = 1
       /\ {arrow_metadata_cache.lru_list[i] : i \in DOMAIN arrow_metadata_cache.lru_list}
             = HashLeaders(arrow_metadata_cache)
       /\ Followers(arrow_metadata_cache) \cap HashLeaders(arrow_metadata_cache) = {}
       /\ \A m \in HashLeaders(arrow_metadata_cache) :
             \A r \in ChainFrom(arrow_metadata_cache, m, NBlocks * MCachesPerBlock) :
                /\ arrow_metadata_cache.mcaches[r].magic = ARROW_METADATA_CACHE_ACTIVE_MAGIC
                /\ arrow_metadata_cache.mcaches[r].stat_buf
                      = arrow_metadata_cache.mcaches[m].stat_buf

(***************************************************************************)
(* Properties of __reclaimMetadataCache and of the allocators              *)
(***************************************************************************)

\* the field entries below the entries fields, these included, to depth n
RECURSIVE FieldsBelow(_, _, _)
FieldsBelow(c, fields, n) ==
    IF fields = {} \/ n = 0 THEN {}
    ELSE fields \cup FieldsBelow(c,
                UNION {{c.fcaches[f].children[i] : i \in DOMAIN c.fcaches[f].children} :
                          f \in fields \cap FRefs},
                n - 1)

\* the field entries of the batch entries ms
FieldsOfEntries(c, ms) ==
    FieldsBelow(c,
        UNION {{c.mcaches[m].fields[i] : i \in DOMAIN c.mcaches[m].fields} : m \in ms},
        NBlocks * FCachesPerBlock)

\* whether lru_tv lies more than 30 seconds before tv
MoreThan30SecondsBefore(lru_tv, tv) ==
    \/ tv.tv_sec - lru_tv.tv_sec > 30 + 1
    \/ tv.tv_sec - lru_tv.tv_sec = 30 + 1 /\ tv.tv_usec >= lru_tv.tv_usec
    \/ tv.tv_sec - lru_tv.tv_sec = 30 /\ tv.tv_usec > lru_tv.tv_usec

LruTail(c) == c.lru_list[Len(c.lru_list)]

AllocatorReturnsNull(p) == backends[p].pc = "reclaim_unspin_young"

\* the free list of the kind of entry backend p asked for
FreeListOfKind(c, p) ==
    IF backends[p].kind = "m" THEN c.free_mcaches ELSE c.free_fcaches

\* C30: when __allocMetadataCache or __allocMetadataFieldCache returns NULL
\* (its last __reclaimMetadataCache having evicted nothing), the free list
\* of the kind asked for is empty and free_blocks is empty: no allocation
\* fails while a free entry of its kind is there.
C30_FailsOnlyWhenNothingFree ==
    \A p \in Procs :
       AllocatorReturnsNull(p) =>
          /\ FreeListOfKind(arrow_metadata_cache, p) = <<>>
          /\ arrow_metadata_cache.free_blocks = <<>>

(***************************************************************************)
(* Properties of lookupArrowMetadataCache                                  *)
(***************************************************************************)

\* the leaders of the hash slot of stat_buf that are entries of its file
\* with an older mtime
StaleLeaders(c, stat_buf) ==
    {m \in HashLeaders(c) :
        /\ OnList(c.hash_slots[arrowMetadataHashIndex(stat_buf)], m)
        /\ SameFile(stat_buf, c.mcaches[m].stat_buf)
        /\ ~CacheIsValid(stat_buf, c.mcaches[m].stat_buf)}

\* C31: a lookup under the exclusive lock that meets a stale leader takes
\* it out of its hash slot and of the LRU list, makes it and the entries
\* next leads to FREE, leaves every other entry of the hash slot linked and
\* ACTIVE, and returns NULL, so that its caller goes on to insert; a lookup
\* under the shared lock that meets one returns NULL and changes nothing.
C31_StaleDiscarded ==
    [][\A p \in Procs :
          LET c == arrow_metadata_cache
              d == arrow_metadata_cache'
              b == backends[p]
              hindex == arrowMetadataHashIndex(b.stat_buf)
          IN  Acts(p) =>
                /\ b.pc = "stale_release" =>
                      /\ ~Linked(d, b.mcache)
                      /\ \A r \in ChainFrom(c, b.mcache, NBlocks * MCachesPerBlock) :
                            d.mcaches[r].magic = ARROW_METADATA_CACHE_FREE_MAGIC
                      /\ d.hash_slots[hindex] = dlist_delete(c.hash_slots[hindex], b.mcache)
                      /\ \A i \in DOMAIN d.hash_slots[hindex] :
                            d.mcaches[d.hash_slots[hindex][i]].magic
                               = ARROW_METADATA_CACHE_ACTIVE_MAGIC
                      /\ backends'[p].pc = "alloc_m"
                /\ (b.pc = "lookup" /\ ~b.has_exclusive
                       /\ StaleLeaders(c, b.stat_buf) # {}) =>
                      /\ d = c
                      /\ backends'[p].pc = "unlock_miss"
      ]_vars

(***************************************************************************)
(* Properties of the block pool (pgstrom_startup_arrow_fdw)                *)
(***************************************************************************)

ARROW_METADATA_BLOCKSZ == 128 * 1024

TYPEALIGN(ALIGNVAL, LEN) == ((LEN + ALIGNVAL - 1) \div ALIGNVAL) * ALIGNVAL

\* the number of blocks pgstrom_startup_arrow_fdw pushes onto free_blocks
\* for a configured size in kilobytes
StartupBlockCount(size_kb) ==
    TYPEALIGN(ARROW_METADATA_BLOCKSZ, size_kb * 1024) \div ARROW_METADATA_BLOCKSZ

\* the configured size of the segment of the model: the largest the start-up
\* makes NBlocks blocks for
arrow_metadata_cache_size_kb == NBlocks * 128

\* offsetof(arrowMetadataCacheBlock, data): a dlist_node and two int32
BlockHeaderSize == 24

\* the unit size a block of the model is carved with: the largest that
\* leaves room for the entries of the block after the block header
UnitSizeOf(perBlock) == (ARROW_METADATA_BLOCKSZ - BlockHeaderSize) \div perBlock

\* the bytes of the ACTIVE entries of the segment
LiveBytes(c) ==
    LET n(kind) == Cardinality(UNION {ActiveEntriesOf(c, b) :
                                  b \in {x \in Blocks : c.blocks[x].unitsz = kind}})
    IN  n("m") * UnitSizeOf(MCachesPerBlock) + n("f") * UnitSizeOf(FCachesPerBlock)

\* the blocks entries are carved from
CarvedBlocks(c) == {b \in Blocks : c.blocks[b].unitsz # "none"}

\* C32: the segment has the number of blocks the start-up computes from the
\* configured size; every block is either on free_blocks, once, or carved
\* and holding an ACTIVE entry, never both and never neither; and the bytes
\* of the ACTIVE entries are no more than the configured size.
C32_BlockPool ==
    postmaster = "up" =>
       LET c == arrow_metadata_cache
       IN  /\ Cardinality(DOMAIN c.blocks)
                 = StartupBlockCount(arrow_metadata_cache_size_kb)
           /\ ~c.corrupt
           /\ \A b \in Blocks :
                 /\ CountOnList(c.free_blocks, b) <= 1
                 /\ OnList(c.free_blocks, b)
                       <=> ~(b \in CarvedBlocks(c) /\ ActiveEntriesOf(c, b) # {})
           /\ LiveBytes(c) <= arrow_metadata_cache_size_kb * 1024

\* a backend inside lookupArrowMetadataCache
InLookup(b) ==
    b.pc \in {"lookup", "touch_spin", "touch", "touch_unspin",
              "stale_spin", "stale_lru", "stale_unspin", "stale_release"}

\* C33: a call of lookupArrowMetadataCache ends: every step a backend takes
\* inside the lookup is another step of the lookup or its return, also the
\* step that releases a stale chain; the walk never goes on from the node of
\* the entry it released, so no backend hangs in the walk or faults in it.
C33_LookupTerminates ==
    [][\A p \in Procs :
          (Acts(p) /\ InLookup(backends[p])) =>
             /\ backends'[p].pc \notin {"hung", "crashed"}
             /\ postmaster' = "up"
      ]_vars

(***************************************************************************)
(* Properties of the allocators                                            *)
(***************************************************************************)

\* the entries a step makes ACTIVE
AllocatedCaches ==
    {r \in MRefs :
        /\ arrow_metadata_cache.mcaches[r].magic # ARROW_METADATA_CACHE_ACTIVE_MAGIC
        /\ arrow_metadata_cache'.mcaches[r].magic = ARROW_METADATA_CACHE_ACTIVE_MAGIC}

AllocatedFieldCaches ==
    {r \in FRefs :
        /\ arrow_metadata_cache.fcaches[r].magic # ARROW_METADATA_CACHE_ACTIVE_MAGIC
        /\ arrow_metadata_cache'.fcaches[r].magic = ARROW_METADATA_CACHE_ACTIVE_MAGIC}

\* r was a free entry before the step: on the free list, or a slot of the
\* block the step carves
WasFree(c, list, r) ==
    \/ OnList(list, r)
    \/ c.free_blocks # <<>> /\ RefBlock(r) = Head(c.free_blocks)

\* C34: an allocation that succeeds gives one entry that was free; the entry
\* is ACTIVE, in no hash slot and not on the LRU list, its next is NULL and
\* its list of fields (children, for a field entry) is empty, it is a slot
\* of the block it was carved from, and n_actives of that block is one more
\* than before (one, for a block carved by the step).
C34_FreshEntry ==
    [][\A p \in Procs :
          LET c == arrow_metadata_cache  d == arrow_metadata_cache'
              CountedUp(r) ==
                  d.blocks[RefBlock(r)].n_actives =
                     (IF c.free_blocks # <<>> /\ RefBlock(r) = Head(c.free_blocks)
                      THEN 0 ELSE c.blocks[RefBlock(r)].n_actives) + 1
          IN  (/\ Acts(p)
               /\ backends[p].pc \in {"alloc_m", "alloc_m_blocks",
                                      "alloc_f", "alloc_f_blocks"}
               /\ backends'[p].pc # "crashed") =>
                 /\ Cardinality(AllocatedCaches \cup AllocatedFieldCaches) <= 1
                 /\ \A r \in AllocatedCaches :
                       /\ WasFree(c, c.free_mcaches, r)
                       /\ ~OnList(d.free_mcaches, r)
                       /\ ~Linked(d, r)
                       /\ ~OnList(d.lru_list, r)
                       /\ d.mcaches[r].next = NULLREF
                       /\ d.mcaches[r].fields = <<>>
                       /\ d.blocks[RefBlock(r)].unitsz = "m"
                       /\ CountedUp(r)
                 /\ \A r \in AllocatedFieldCaches :
                       /\ WasFree(c, c.free_fcaches, r)
                       /\ ~OnList(d.free_fcaches, r)
                       /\ d.fcaches[r].children = <<>>
                       /\ d.blocks[RefBlock(r)].unitsz = "f"
                       /\ CountedUp(r)
      ]_vars

(***************************************************************************)
(* Properties of BuildArrowFileState on a rewritten file                   *)
(***************************************************************************)

\* the st_mtim of a is later than that of b
StrictlyNewer(a, b) ==
    \/ a.st_mtim.tv_sec > b.st_mtim.tv_sec
    \/ /\ a.st_mtim.tv_sec = b.st_mtim.tv_sec
       /\ a.st_mtim.tv_nsec > b.st_mtim.tv_nsec

\* the leaders of the file of stat_buf in the hash slots
LeadersOfFile(c, stat_buf) ==
    {m \in HashLeaders(c) : SameFile(stat_buf, c.mcaches[m].stat_buf)}

\* a backend between the return of __buildArrowFileStateByFile and its
\* release of the exclusive lock
HasFileState(b) == b.state # NULL

NotEarlier(a, b) ==
    \/ a.tv_sec > b.tv_sec
    \/ a.tv_sec = b.tv_sec /\ a.tv_usec >= b.tv_usec

\* C36: whenever lru_lock is free the LRU list is ordered by lru_tv, the
\* most recently used leader at the head; so when the tail is not more than
\* 30 seconds old, no entry of the list is.
C36_LruOrdered ==
    (postmaster = "up" /\ lru_lock = 0) =>
       LET c == arrow_metadata_cache
       IN  /\ \A i, j \in DOMAIN c.lru_list :
                 i < j => NotEarlier(c.mcaches[c.lru_list[i]].lru_tv,
                                     c.mcaches[c.lru_list[j]].lru_tv)
           /\ (c.lru_list # <<>>
                  /\ ~MoreThan30SecondsBefore(c.mcaches[LruTail(c)].lru_tv, now)) =>
                 \A i \in DOMAIN c.lru_list :
                    ~MoreThan30SecondsBefore(c.mcaches[c.lru_list[i]].lru_tv, now)

\* the lock is free and the list holds leaders used at different times, the
\* one at the head by a lookup that moved it there
C36_Witness ==
    /\ postmaster = "up"
    /\ lru_lock = 0
    /\ Len(arrow_metadata_cache.lru_list) >= 2
    /\ LET c == arrow_metadata_cache
       IN  /\ c.mcaches[c.lru_list[1]].lru_tv # c.mcaches[LruTail(c)].lru_tv
           /\ \E p \in Procs : backends[p].pc \in {"by_cache", "unlock_excl"}
                                 /\ backends[p].mcache = c.lru_list[1]

(***************************************************************************)
(* Part 11. A parallel scan: the participants share the batch counter      *)
(***************************************************************************)

\* the leader (1) and the workers of a parallel scan
NParticipants == 3
Participants == 1..NParticipants

\* the ReScans of the parallel scan the model follows
MaxRescans == 1

\* what the three pg_atomic_uint32 of the DSM segment hold before
\* __ExecInitDSMArrowFdw (the segment is not zeroed)
GarbageCounter == 7

\* the file sets, quals and settings of the parallel scans of the model
PScanFileSets == {<<"plain">>, <<"plain", "nostat">>, <<"long", "trim">>}
PScanQuals ==
    {<<>>,
     << [opno |-> ">", var_left |-> TRUE, varattno |-> 1, arg |-> 5] >>,
     << [opno |-> "<", var_left |-> TRUE, varattno |-> 1, arg |-> 9] >>}

\* a fetch-and-add that adds nothing
pg_atomic_fetch_add_u32_Lost(val, add_) == [old |-> val, new |-> val]

\* pg_atomic_fetch_add_u32: the value before, and the value stored.  The
\* counters stay far below 2^32 in the model.
pg_atomic_fetch_add_u32(val, add_) == [old |-> val, new |-> val + add_]

\* a participant before ExecInitDSMArrowFdw / ExecInitWorkerArrowFdw
StartingParticipant ==
    [pc |-> "start", rb_index |-> 0, claimed |-> <<>>, loaded |-> <<>>,
     eof_calls |-> 0, nclaims |-> 0]

PScanInit ==
    /\ \E files \in PScanFileSets, quals \in PScanQuals, hint \in BOOLEAN,
          g \in {0, GarbageCounter} :
          LET r == InitArrowFdwState(files, quals, hint)
          IN  /\ ~r.raised
              /\ pscan = [af |-> r.af,
                          gtss |-> [af_rbatch_index |-> g,
                                    af_rbatch_nload |-> g,
                                    af_rbatch_nskip |-> g],
                          initialized |-> FALSE,
                          rescans |-> 0,
                          part |-> [w \in Participants |-> StartingParticipant]]
    /\ preload = <<>>
    /\ outerjoin = <<>>
    /\ NoBuild /\ NoOptions /\ NoPlan /\ NoBackends
    /\ build = "keep"
    /\ CacheStartup
    /\ ft_files = <<>>
    /\ outer_quals = <<>>
    /\ arrow_fdw_stats_hint_enabled = TRUE
    /\ sc_pc = "init"
    /\ af_state = NULL
    /\ returned = <<>>
    /\ skipped = <<>>
    /\ eof_calls = 0

\* lines 4808-4821: the leader initializes the three counters and points
\* its af_state at them
ExecInitDSMArrowFdw ==
    /\ pscan # <<>>
    /\ pscan.part[1].pc = "start"
    /\ pscan' = [pscan EXCEPT
          !.gtss = [af_rbatch_index |-> 0, af_rbatch_nload |-> 0,
                    af_rbatch_nskip |-> 0],
          !.initialized = TRUE,
          !.part[1].pc = "fetch"]
    /\ UNCHANGED <<preload, outerjoin>>
    /\ UNCHANGED <<scan_vars, cache_vars, build_vars, opt_vars, plan_vars, lock_vars>>

\* lines 4872-4881: a worker, launched after the DSM segment was
\* initialized, points its af_state at the counters
ExecInitWorkerArrowFdw(w) ==
    /\ pscan # <<>>
    /\ w # 1
    /\ pscan.initialized
    /\ pscan.part[w].pc = "start"
    /\ pscan' = [pscan EXCEPT !.part[w].pc = "fetch"]
    /\ UNCHANGED <<preload, outerjoin>>
    /\ UNCHANGED <<scan_vars, cache_vars, build_vars, opt_vars, plan_vars, lock_vars>>

\* lines 4009-4013: rb_index = pg_atomic_fetch_add_u32(rbatch_index, 1), and
\* the return of NULL past the last batch
FetchNextRecordBatch(w) ==
    /\ pscan # <<>>
    /\ pscan.part[w].pc = "fetch"
    /\ pscan.part[w].eof_calls < MaxEofCalls
    /\ \E r \in {pg_atomic_fetch_add_u32(pscan.gtss.af_rbatch_index, 1)} :
          pscan' = [pscan EXCEPT
             !.gtss.af_rbatch_index = r.new,
             !.part[w] =
                IF r.old >= pscan.af.num_rbatches
                THEN [@ EXCEPT !.eof_calls = @ + 1]
                ELSE [@ EXCEPT !.rb_index = r.old,
                               !.claimed = Append(@, r.old),
                               !.nclaims = @ + 1,
                               !.pc = IF pscan.af.stats_hint # NULL
                                      THEN "check" ELSE "load"]]
    /\ UNCHANGED <<preload, outerjoin>>
    /\ UNCHANGED <<scan_vars, cache_vars, build_vars, opt_vars, plan_vars, lock_vars>>

\* lines 4015-4024: the batch is counted as loaded, or as skipped and the
\* next one is fetched
CheckStatsHint(w) ==
    /\ pscan # <<>>
    /\ pscan.part[w].pc = "check"
    /\ IF execCheckArrowStatsHint(
             Deref(pscan.af.stats_hint),
             pscan.af.rbatches[pscan.part[w].rb_index + 1].rb_state)
       THEN pscan' = [pscan EXCEPT
               !.gtss.af_rbatch_nload =
                   pg_atomic_fetch_add_u32(@, 1).new,
               !.part[w].pc = "load"]
       ELSE pscan' = [pscan EXCEPT
               !.gtss.af_rbatch_nskip =
                   pg_atomic_fetch_add_u32(@, 1).new,
               !.part[w].pc = "fetch"]
    /\ UNCHANGED <<preload, outerjoin>>
    /\ UNCHANGED <<scan_vars, cache_vars, build_vars, opt_vars, plan_vars, lock_vars>>

\* lines 4025-4030: __arrowFdwLoadRecordBatch reads the batch and the call
\* returns it
LoadRecordBatch(w) ==
    /\ pscan # <<>>
    /\ pscan.part[w].pc = "load"
    /\ pscan' = [pscan EXCEPT
          !.part[w].loaded = Append(@, pscan.part[w].rb_index),
          !.part[w].pc = "fetch"]
    /\ UNCHANGED <<preload, outerjoin>>
    /\ UNCHANGED <<scan_vars, cache_vars, build_vars, opt_vars, plan_vars, lock_vars>>

\* lines 4848-4852: ReScan.  The workers of the scan before have exited;
\* the leader sets rbatch_index back to 0 and new workers are launched
ExecReInitDSMArrowFdw ==
    /\ pscan # <<>>
    /\ pscan.rescans < MaxRescans
    /\ pscan.part[1].pc = "fetch" /\ pscan.part[1].eof_calls > 0
    /\ \A w \in Participants \ {1} :
          \/ pscan.part[w].pc = "start"
          \/ pscan.part[w].pc = "fetch" /\ pscan.part[w].eof_calls > 0
    /\ pscan' = [pscan EXCEPT
          !.gtss.af_rbatch_index = 0,
          !.rescans = @ + 1,
          !.part = [w \in Participants |->
                      [StartingParticipant EXCEPT
                          !.pc = IF w = 1 THEN "fetch" ELSE "start",
                          !.nclaims = pscan.part[w].nclaims]]]
    /\ UNCHANGED <<preload, outerjoin>>
    /\ UNCHANGED <<scan_vars, cache_vars, build_vars, opt_vars, plan_vars, lock_vars>>

PScanNext ==
    \/ ExecInitDSMArrowFdw
    \/ \E w \in Participants : ExecInitWorkerArrowFdw(w)
    \/ \E w \in Participants : FetchNextRecordBatch(w)
    \/ \E w \in Participants : CheckStatsHint(w)
    \/ \E w \in Participants : LoadRecordBatch(w)
    \/ ExecReInitDSMArrowFdw

SpecParallelScan == PScanInit /\ [][PScanNext]_vars

(***************************************************************************)
(* Properties of the parallel scan                                         *)
(***************************************************************************)

\* the participants whose claims of this scan hold batch i, counted with
\* the number of times each claimed it
ClaimsOf(i) ==
    {<<w, k>> \in Participants \X (1..Len(pscan.af.rbatches)) :
        /\ k \in DOMAIN pscan.part[w].claimed
        /\ pscan.part[w].claimed[k] = i}

RECURSIVE SumOver(_, _)
SumOver(f, S) ==
    IF S = {} THEN 0
    ELSE LET x == CHOOSE y \in S : TRUE IN f[x] + SumOver(f, S \ {x})

\* the participants between the fetch of a batch and its count
BeingChecked == {w \in Participants : pscan.part[w].pc = "check"}

\* C37: of the participants of one scan, every batch below the counter and
\* below num_rbatches is claimed by exactly one, once, and no other index is
\* claimed; every participant is given its batches in increasing order;
\* and with a stats hint rbatch_nload + rbatch_nskip is the number of
\* batches claimed so far, less those whose check is under way.
C37_SharedCounter ==
    (pscan # <<>> /\ pscan.initialized) =>
       /\ \A i \in 0..(pscan.af.num_rbatches - 1) :
             Cardinality(ClaimsOf(i)) =
                (IF i < pscan.gtss.af_rbatch_index THEN 1 ELSE 0)
       /\ \A w \in Participants :
             /\ \A k \in DOMAIN pscan.part[w].claimed :
                   pscan.part[w].claimed[k] \in 0..(pscan.af.num_rbatches - 1)
             /\ \A k, l \in DOMAIN pscan.part[w].claimed :
                   k < l => pscan.part[w].claimed[k] < pscan.part[w].claimed[l]
       /\ pscan.af.stats_hint # NULL =>
             pscan.gtss.af_rbatch_nload + pscan.gtss.af_rbatch_nskip
                = SumOver([w \in Participants |-> pscan.part[w].nclaims],
                          Participants)
                  - Cardinality(BeingChecked)

\* a scan with a stats hint has ended for the leader and two workers, each
\* was given a batch, and batches were loaded and skipped
C37_Witness ==
    /\ pscan # <<>>
    /\ pscan.af.stats_hint # NULL
    /\ \A w \in Participants :
          /\ pscan.part[w].pc = "fetch"
          /\ pscan.part[w].eof_calls > 0
          /\ pscan.part[w].claimed # <<>>
    /\ pscan.gtss.af_rbatch_nload > 0
    /\ pscan.gtss.af_rbatch_nskip > 0

(***************************************************************************)
(* Part 12. A parallel GpuJoin: the inner preload of the participants      *)
(***************************************************************************)

\* the calls of GpuJoinInnerPreload each participant makes in one scan
MaxPreloadCalls == 2

INT_MAX == 2147483647

\* gjs->seg_kmrels: NULL, (void *)(~0UL), or the segment of a dsm_handle
\* (written as the handle)
NullSegment == 0
NoSegment == -1

\* gj_sstate->kmrels_handle before a preload: UINT_MAX, a handle of no
\* segment
UnsetHandle == -2

IsParallelWorker(w) == w # 1

Workers == {w \in Participants : IsParallelWorker(w)}

\* createGpuJoinSharedState
createGpuJoinSharedState ==
    [kmrels_handle |-> UnsetHandle, preload_done |-> 0, pg_nworkers |-> 0]

\* a worker that is not launched yet, and the leader before its first call
ParticipantOfJoin(w) ==
    [pc |-> IF IsParallelWorker(w) THEN "unlaunched" ELSE "idle",
     seg_kmrels |-> NullSegment, preload_done |-> 0, i |-> 0,
     ret |-> "none", calls |-> 0, woken |-> FALSE]

\* BGWH_STARTED: the process of the worker runs
BackgroundWorkerStarted(p) == p.pc \notin {"unlaunched", "exited"}

\* a participant inside GpuJoinInnerPreload
InPreloadCall(p) ==
    p.pc \in {"reset", "read", "preload", "write", "wake", "wait",
              "reset_wait", "attach"}

\* a signal that does not arrive
ProcSendSignal_Dropped(latch, w) == latch

\* ProcSendSignal: SetLatch(&proc->procLatch) of the process
ProcSendSignal(latch, w) == [latch EXCEPT ![w] = TRUE]

\* a leader that reports every preload as loaded
PreloadDoneOf_AlwaysLoaded(loaded) == 1

\* lines 6684-6687: what the leader writes to preload_done
PreloadDoneOf(loaded) == IF loaded THEN 1 ELSE INT_MAX

PreloadInit ==
    /\ preload = [gj_sstate |-> createGpuJoinSharedState,
                  latch |-> [w \in Participants |-> FALSE],
                  part |-> [w \in Participants |-> ParticipantOfJoin(w)],
                  npreloads |-> 0,
                  nsegments |-> 0,
                  rescans |-> 0]
    /\ pscan = <<>>
    /\ outerjoin = <<>>
    /\ NoBuild /\ NoOptions /\ NoPlan /\ NoBackends
    /\ build = "keep"
    /\ CacheStartup
    /\ ft_files = <<>>
    /\ outer_quals = <<>>
    /\ arrow_fdw_stats_hint_enabled = TRUE
    /\ sc_pc = "init"
    /\ af_state = NULL
    /\ returned = <<>>
    /\ skipped = <<>>
    /\ eof_calls = 0

PreloadUnchanged ==
    /\ UNCHANGED <<pscan, outerjoin>>
    /\ UNCHANGED <<scan_vars, cache_vars, build_vars, opt_vars, plan_vars, lock_vars>>

\* the postmaster starts the process of a worker the leader registered
LaunchWorker(w) ==
    /\ preload # <<>>
    /\ IsParallelWorker(w)
    /\ preload.part[w].pc = "unlaunched"
    /\ preload.part[1].pc \notin {"failed", "ended"}
    /\ preload' = [preload EXCEPT !.part[w].pc = "idle"]
    /\ PreloadUnchanged

\* GpuJoinInnerPreload, lines 6656-6676: the preload this participant has
\* done or attached to is answered from seg_kmrels; otherwise the
\* participant is counted in pg_nworkers
EnterInnerPreload(w) ==
    /\ preload # <<>>
    /\ preload.part[w].pc = "idle"
    /\ preload.part[w].calls < MaxPreloadCalls
    /\ preload' =
          IF preload.part[w].seg_kmrels # NullSegment
          THEN [preload EXCEPT
                   !.part[w].calls = @ + 1,
                   !.part[w].ret =
                       IF preload.part[w].seg_kmrels # NoSegment
                       THEN "true" ELSE "false"]
          ELSE [preload EXCEPT
                   !.part[w].calls = @ + 1,
                   !.part[w].woken = FALSE,
                   !.part[w].pc = "reset",
                   !.gj_sstate.pg_nworkers = @ + 1]
    /\ PreloadUnchanged

\* lines 6678, 6726: ResetLatch(&MyProc->procLatch)
ResetProcLatch(w) ==
    /\ preload # <<>>
    /\ preload.part[w].pc \in {"reset", "reset_wait"}
    /\ preload' = [preload EXCEPT !.latch[w] = FALSE, !.part[w].pc = "read"]
    /\ PreloadUnchanged

\* line 6679: preload_done = pg_atomic_read_u32(&gj_sstate->preload_done)
ReadPreloadDone(w) ==
    /\ preload # <<>>
    /\ preload.part[w].pc = "read"
    /\ preload' = [preload EXCEPT
          !.part[w].preload_done = preload.gj_sstate.preload_done,
          !.part[w].pc = IF preload.gj_sstate.preload_done # 0 THEN "attach"
                         ELSE IF IsParallelWorker(w) THEN "wait"
                         ELSE "preload"]
    /\ PreloadUnchanged

\* lines 6681-6687 and __gpujoin_inner_preload: the inner relations are
\* loaded into a new segment whose handle is published, or the join is
\* found to produce nothing, or an allocation raises
InnerPreload(w) ==
    /\ preload # <<>>
    /\ preload.part[w].pc = "preload"
    /\ \E outcome \in {"loaded", "empty", "raised"} :
          preload' =
             CASE outcome = "loaded" ->
                    [preload EXCEPT
                        !.npreloads = @ + 1,
                        !.nsegments = @ + 1,
                        !.gj_sstate.kmrels_handle = preload.nsegments + 1,
                        !.part[w].seg_kmrels = preload.nsegments + 1,
                        !.part[w].preload_done = PreloadDoneOf(TRUE),
                        !.part[w].pc = "write"]
               [] outcome = "empty" ->
                    [preload EXCEPT
                        !.npreloads = @ + 1,
                        !.part[w].seg_kmrels = NoSegment,
                        !.part[w].preload_done = PreloadDoneOf(FALSE),
                        !.part[w].pc = "write"]
               [] outcome = "raised" ->
                    [preload EXCEPT
                        !.npreloads = @ + 1,
                        !.part[w].pc = "failed"]
    /\ PreloadUnchanged

\* line 6688: pg_atomic_write_u32(&gj_sstate->preload_done, preload_done)
WritePreloadDone(w) ==
    /\ preload # <<>>
    /\ preload.part[w].pc = "write"
    /\ preload' = [preload EXCEPT
          !.gj_sstate.preload_done = preload.part[w].preload_done,
          !.part[w].pc = "wake",
          !.part[w].i = 2]
    /\ PreloadUnchanged

\* lines 6691-6711: the workers that have started are signalled one by one,
\* then the leader returns
WakeWorkers(w) ==
    /\ preload # <<>>
    /\ preload.part[w].pc = "wake"
    /\ preload' =
          IF preload.part[w].i > NParticipants
          THEN [preload EXCEPT
                   !.part[w].pc = "idle",
                   !.part[w].ret = IF preload.part[w].preload_done = 1
                                   THEN "true" ELSE "false"]
          ELSE [preload EXCEPT
                   !.latch = IF BackgroundWorkerStarted(preload.part[preload.part[w].i])
                             THEN ProcSendSignal(@, preload.part[w].i)
                             ELSE @,
                   !.part[w].i = @ + 1]
    /\ PreloadUnchanged

\* lines 6715-6725: WaitLatch returns once the latch is set
WaitProcLatch(w) ==
    /\ preload # <<>>
    /\ preload.part[w].pc = "wait"
    /\ preload.latch[w]
    /\ preload' = [preload EXCEPT !.part[w].pc = "reset_wait",
                                  !.part[w].woken = TRUE]
    /\ PreloadUnchanged

\* lines 6728-6745: false for a join that produces nothing; otherwise the
\* segment of kmrels_handle is attached
AttachInnerBuffer(w) ==
    /\ preload # <<>>
    /\ preload.part[w].pc = "attach"
    /\ preload' =
          IF preload.part[w].preload_done > 1
          THEN [preload EXCEPT !.part[w].pc = "idle", !.part[w].ret = "false"]
          ELSE IF preload.gj_sstate.kmrels_handle \notin 1..preload.nsegments
          THEN [preload EXCEPT !.part[w].pc = "failed"]
          ELSE [preload EXCEPT
                   !.part[w].pc = "idle",
                   !.part[w].ret = "true",
                   !.part[w].seg_kmrels = preload.gj_sstate.kmrels_handle]
    /\ PreloadUnchanged

\* GpuJoinInnerUnload of participant w.  The leader detaches what
\* seg_kmrels holds, also the ~0UL of a join that produces nothing, which
\* is no segment: the detach faults.
GpuJoinInnerUnload(pl, w, is_rescan) ==
    LET p == pl.part[w]
        Reset(gj) ==
            IF ~IsParallelWorker(w) /\ is_rescan
            THEN createGpuJoinSharedState
            ELSE gj
    IN  IF p.seg_kmrels = NullSegment THEN pl
        ELSE [pl EXCEPT
                !.gj_sstate = Reset(@),
                !.npreloads = IF ~IsParallelWorker(w) /\ is_rescan THEN 0 ELSE @,
                !.part[w].seg_kmrels = NullSegment,
                !.part[w].pc = IF ~IsParallelWorker(w) /\ p.seg_kmrels = NoSegment
                               THEN "failed" ELSE @]

\* ExecEndGpuJoin, line 2803: the participant leaves the join; the leader
\* does once its workers have exited
ExecEndGpuJoin(w) ==
    /\ preload # <<>>
    /\ preload.part[w].pc = "idle"
    /\ IsParallelWorker(w)
          \/ \A v \in Workers : preload.part[v].pc \in {"unlaunched", "exited"}
    /\ LET pl == GpuJoinInnerUnload(preload, w, FALSE)
       IN  preload' = [pl EXCEPT
              !.part[w].pc = IF @ = "failed" THEN @
                             ELSE IF IsParallelWorker(w) THEN "exited"
                             ELSE "ended"]
    /\ PreloadUnchanged

\* ExecReScanGpuJoin, lines 2822-2839: with changed parameters the leader
\* unloads the inner buffer; the workers of the scan before have exited
\* and new ones are launched
ExecReScanGpuJoin(chgParam) ==
    /\ preload # <<>>
    /\ preload.rescans < MaxRescans
    /\ preload.part[1].pc = "idle"
    /\ \A v \in Workers : preload.part[v].pc \in {"unlaunched", "exited"}
    /\ LET pl == IF chgParam THEN GpuJoinInnerUnload(preload, 1, TRUE)
                 ELSE preload
       IN  preload' = [pl EXCEPT
              !.rescans = @ + 1,
              !.part = [w \in Participants |->
                          IF IsParallelWorker(w) THEN ParticipantOfJoin(w)
                          ELSE [pl.part[w] EXCEPT !.calls = 0, !.ret = "none",
                                                  !.woken = FALSE]]]
    /\ PreloadUnchanged

\* a step of participant w inside a call of GpuJoinInnerPreload
PreloadStep(w) ==
    \/ ResetProcLatch(w)
    \/ ReadPreloadDone(w)
    \/ InnerPreload(w)
    \/ WritePreloadDone(w)
    \/ WakeWorkers(w)
    \/ WaitProcLatch(w)
    \/ AttachInnerBuffer(w)

PreloadNext ==
    \/ \E w \in Participants : LaunchWorker(w)
    \/ \E w \in Participants : EnterInnerPreload(w)
    \/ \E w \in Participants : PreloadStep(w)
    \/ \E w \in Participants : ExecEndGpuJoin(w)
    \/ \E chgParam \in BOOLEAN : ExecReScanGpuJoin(chgParam)

SpecPreload == PreloadInit /\ [][PreloadNext]_vars

\* every participant that is inside a call goes on: the processes are
\* scheduled fairly
SpecPreloadFair ==
    SpecPreload /\ \A w \in Participants : WF_vars(PreloadStep(w))

(***************************************************************************)
(* Properties of the inner preload                                         *)
(***************************************************************************)

\* the participants that hold the inner buffer of a handle
AttachedWorkers == {w \in Workers : preload.part[w].seg_kmrels # NullSegment}

\* C38: in a parallel GpuJoin the inner relations are preloaded by the
\* leader only and at most once per scan, until a rescan resets
\* preload_done; a worker holds the inner buffer only while preload_done is
\* non-zero, and then the buffer of the published handle; and every
\* participant's call returns the same outcome: true when preload_done is
\* 1, false when the leader found that the join produces nothing.
C38_PreloadOnce ==
    preload # <<>> =>
       /\ preload.npreloads <= 1
       /\ \A w \in Workers : preload.part[w].pc \notin {"preload", "write", "wake"}
       /\ \A w \in AttachedWorkers :
             /\ preload.gj_sstate.preload_done # 0
             /\ preload.part[w].seg_kmrels = preload.gj_sstate.kmrels_handle
       /\ \A w \in Workers :
             preload.part[w].pc = "attach" => preload.gj_sstate.preload_done # 0
       /\ \A w \in Participants :
             /\ preload.part[w].ret = "true" => preload.gj_sstate.preload_done = 1
             /\ preload.part[w].ret = "false" =>
                   preload.gj_sstate.preload_done = INT_MAX

\* C38 happens: after a rescan that reset preload_done the leader has
\* preloaded again and a worker of the new scan has attached to the second
\* buffer, both calls returning true
C38_Witness ==
    /\ preload # <<>>
    /\ preload.rescans = 1
    /\ preload.nsegments = 2
    /\ preload.part[1].ret = "true"
    /\ \E w \in Workers :
          /\ preload.part[w].ret = "true"
          /\ preload.part[w].seg_kmrels = 2

\* the leader has called GpuJoinInnerPreload in this scan
LeaderCalled == preload # <<>> /\ preload.part[1].calls > 0

NumRels == 3

Depths == 1 .. NumRels

Max(a, b) == IF a >= b THEN a ELSE b

\* the inner chunks of a preload that returned true: right_outer of a
\* RIGHT or FULL join (6534-6540), and whether the relation has rows
InnerChunks ==
    {c \in [Depths -> [right_outer : BOOLEAN, nitems : {0, 1}]] :
        \A d \in Depths : ~c[d].right_outer => c[d].nitems = 1}

\* gpujoinHasRightOuterJoin: ojmaps_length > 0, the sum of the (aligned)
\* nitems of the right_outer chunks (6539, 6551)
gpujoinHasRightOuterJoin(chunks) ==
    \E d \in Depths : chunks[d].right_outer /\ chunks[d].nitems > 0

RightOuterDepths(chunks) == {d \in Depths : chunks[d].right_outer}

\* a search that starts at the depth visited last
FirstDepthAfter_Same(curr_outer_depth) == Max(curr_outer_depth, 1)

\* line 4572: where the search of gpujoinNextRightOuterJoin starts
FirstDepthAfter(curr_outer_depth) == Max(curr_outer_depth + 1, 1)

\* gpujoinNextRightOuterJoin: the first right_outer depth from there, or -1
gpujoinNextRightOuterJoin(chunks, curr_outer_depth) ==
    LET S == {d \in RightOuterDepths(chunks) : d >= FirstDepthAfter(curr_outer_depth)}
    IN  IF S = {} THEN -1 ELSE CHOOSE d \in S : \A e \in S : d <= e

\* a leader that goes on while one worker is still counted
WorkersRunning_OneLeft(pg_nworkers) == pg_nworkers > 2

\* line 4601: the test of the leader's wait loop
WorkersRunning(pg_nworkers) == pg_nworkers > 1

JoinParticipant(w) ==
    [pc |-> IF IsParallelWorker(w) THEN "unlaunched" ELSE "start",
     seen |-> 0, registered |-> FALSE, ndecrements |-> 0, late |-> FALSE]

OuterJoinInit ==
    /\ \E chunks \in InnerChunks :
          outerjoin = [chunks |-> chunks,
                       pg_nworkers |-> 0,
                       pergpu_pg_nworkers |-> 0,
                       masterLatch |-> FALSE,
                       curr_outer_depth |-> -1,
                       tasks |-> <<>>,
                       reported |-> FALSE,
                       waited |-> FALSE,
                       rescans |-> 0,
                       part |-> [w \in Participants |-> JoinParticipant(w)]]
    /\ pscan = <<>>
    /\ preload = <<>>
    /\ NoBuild /\ NoOptions /\ NoPlan /\ NoBackends
    /\ build = "keep"
    /\ CacheStartup
    /\ ft_files = <<>>
    /\ outer_quals = <<>>
    /\ arrow_fdw_stats_hint_enabled = TRUE
    /\ sc_pc = "init"
    /\ af_state = NULL
    /\ returned = <<>>
    /\ skipped = <<>>
    /\ eof_calls = 0

OuterJoinUnchanged ==
    /\ UNCHANGED <<pscan, preload>>
    /\ UNCHANGED <<scan_vars, cache_vars, build_vars, opt_vars, plan_vars, lock_vars>>

\* the leader is between its read of pg_nworkers that ended the wait and
\* the end of that call of gpujoin_terminator_task
LeaderPastSync == outerjoin.part[1].pc = "next"

\* the postmaster starts the process of a worker
StartWorker(w) ==
    /\ outerjoin # <<>>
    /\ IsParallelWorker(w)
    /\ outerjoin.part[w].pc = "unlaunched"
    /\ outerjoin.part[1].pc # "ended"
    /\ outerjoin' = [outerjoin EXCEPT !.part[w].pc = "start"]
    /\ OuterJoinUnchanged

\* GpuJoinInnerPreload, lines 6674-6676, of the first ExecGpuJoin of the
\* participant: it is counted in pg_nworkers of its GPU and of the join
RegisterParticipant(w) ==
    /\ outerjoin # <<>>
    /\ outerjoin.part[w].pc = "start"
    /\ outerjoin' = [outerjoin EXCEPT
          !.pergpu_pg_nworkers = @ + 1,
          !.pg_nworkers = @ + 1,
          !.part[w].registered = TRUE,
          !.part[w].late = LeaderPastSync,
          !.part[w].pc = "scan"]
    /\ OuterJoinUnchanged

\* gpujoin_terminator_task, lines 4668-4669: the participant has no task
\* left; without a RIGHT/FULL OUTER JOIN map there is nothing more
TerminatorTask(w) ==
    /\ outerjoin # <<>>
    /\ outerjoin.part[w].pc = "scan"
    /\ outerjoin' =
          IF gpujoinHasRightOuterJoin(outerjoin.chunks)
          THEN [outerjoin EXCEPT
                   !.part[w].pc = IF IsParallelWorker(w) THEN "sub_pergpu"
                                  ELSE "sync_reset"]
          ELSE [outerjoin EXCEPT
                   !.part[w].pc = "done",
                   !.reported = IF IsParallelWorker(w) THEN @ ELSE TRUE]
    /\ OuterJoinUnchanged

\* gpujoinSyncRightOuterJoin, lines 4600 and 4617: ResetLatch(MyLatch)
ResetMasterLatch(w) ==
    /\ outerjoin # <<>>
    /\ outerjoin.part[w].pc \in {"sync_reset", "sync_woken"}
    /\ outerjoin' = [outerjoin EXCEPT !.masterLatch = FALSE,
                                      !.part[w].pc = "sync_read"]
    /\ OuterJoinUnchanged

\* line 4601: the leader reads pg_nworkers
ReadWorkers(w) ==
    /\ outerjoin # <<>>
    /\ outerjoin.part[w].pc = "sync_read"
    /\ outerjoin' = [outerjoin EXCEPT
          !.part[w].seen = outerjoin.pg_nworkers,
          !.part[w].pc = IF WorkersRunning(outerjoin.pg_nworkers)
                         THEN "sync_wait" ELSE "next"]
    /\ OuterJoinUnchanged

\* lines 4605-4616: WaitLatch returns when the latch is set and after a
\* second at the latest
WaitMasterLatch(w) ==
    /\ outerjoin # <<>>
    /\ outerjoin.part[w].pc = "sync_wait"
    /\ outerjoin' = [outerjoin EXCEPT !.part[w].pc = "sync_woken",
                                      !.waited = TRUE]
    /\ OuterJoinUnchanged

\* lines 4626-4651: the worker leaves the count of its GPU
SubPerGpu(w) ==
    /\ outerjoin # <<>>
    /\ outerjoin.part[w].pc = "sub_pergpu"
    /\ outerjoin' = [outerjoin EXCEPT !.pergpu_pg_nworkers = @ - 1,
                                      !.part[w].pc = "sub"]
    /\ OuterJoinUnchanged

\* line 4652: pg_atomic_fetch_sub_u32(&gj_sstate->pg_nworkers, 1)
SubWorkers(w) ==
    /\ outerjoin # <<>>
    /\ outerjoin.part[w].pc = "sub"
    /\ outerjoin' = [outerjoin EXCEPT !.pg_nworkers = @ - 1,
                                      !.part[w].ndecrements = @ + 1,
                                      !.part[w].pc = "set_latch"]
    /\ OuterJoinUnchanged

\* line 4653: SetLatch(gj_sstate->masterLatch)
SetMasterLatch(w) ==
    /\ outerjoin # <<>>
    /\ outerjoin.part[w].pc = "set_latch"
    /\ outerjoin' = [outerjoin EXCEPT !.masterLatch = TRUE,
                                      !.part[w].pc = "next"]
    /\ OuterJoinUnchanged

\* gpujoin_terminator_task, lines 4672-4676: the leader creates the task
\* of the next right_outer depth, if there is one
NextRightOuterTask(w) ==
    /\ outerjoin # <<>>
    /\ outerjoin.part[w].pc = "next"
    /\ \E outer_depth \in {IF IsParallelWorker(w) THEN -1
                           ELSE gpujoinNextRightOuterJoin(outerjoin.chunks,
                                                          outerjoin.curr_outer_depth)} :
          outerjoin' =
             IF outer_depth > 0
             THEN [outerjoin EXCEPT
                      !.curr_outer_depth = outer_depth,
                      !.tasks = Append(@, [outer_depth |-> outer_depth, by |-> w,
                                           seen |-> outerjoin.part[w].seen,
                                           running |-> {v \in Workers :
                                               /\ outerjoin.part[v].registered
                                               /\ outerjoin.part[v].ndecrements = 0
                                               /\ ~outerjoin.part[v].late}]),
                      !.part[w].pc = "scan"]
             ELSE [outerjoin EXCEPT
                      !.part[w].pc = "done",
                      !.reported = IF IsParallelWorker(w) THEN @ ELSE TRUE]
    /\ OuterJoinUnchanged

\* the process of a worker that has returned the end of its scan exits
ExitWorker(w) ==
    /\ outerjoin # <<>>
    /\ IsParallelWorker(w)
    /\ outerjoin.part[w].pc = "done"
    /\ outerjoin' = [outerjoin EXCEPT !.part[w].pc = "exited"]
    /\ OuterJoinUnchanged

\* ExecReScanGpuJoin with its GpuJoinInnerUnload(is_rescan), lines
\* 2824-2837 and 6772-6783: changed parameters reset curr_outer_depth and
\* the counts, and the leader registers again with the next preload;
\* otherwise the inner buffer and all of its state are kept
ReScanOuterJoin(chgParam) ==
    /\ outerjoin # <<>>
    /\ outerjoin.rescans < MaxRescans
    /\ outerjoin.part[1].pc = "done"
    /\ \A v \in Workers : outerjoin.part[v].pc \in {"unlaunched", "exited"}
    /\ outerjoin' =
          IF chgParam
          THEN [outerjoin EXCEPT
                   !.rescans = @ + 1,
                   !.curr_outer_depth = -1,
                   !.pg_nworkers = 0,
                   !.pergpu_pg_nworkers = 0,
                   !.tasks = <<>>,
                   !.reported = FALSE,
                   !.waited = FALSE,
                   !.part = [w \in Participants |-> JoinParticipant(w)]]
          ELSE [outerjoin EXCEPT
                   !.rescans = @ + 1,
                   !.part = [w \in Participants |->
                               IF IsParallelWorker(w) THEN JoinParticipant(w)
                               ELSE [outerjoin.part[w] EXCEPT !.pc = "scan"]]]
    /\ OuterJoinUnchanged

OuterJoinStep(w) ==
    \/ RegisterParticipant(w)
    \/ TerminatorTask(w)
    \/ ResetMasterLatch(w)
    \/ ReadWorkers(w)
    \/ WaitMasterLatch(w)
    \/ SubPerGpu(w)
    \/ SubWorkers(w)
    \/ SetMasterLatch(w)
    \/ NextRightOuterTask(w)

OuterJoinNext ==
    \/ \E w \in Participants : StartWorker(w)
    \/ \E w \in Participants : OuterJoinStep(w)
    \/ \E w \in Participants : ExitWorker(w)
    \/ \E chgParam \in BOOLEAN : ReScanOuterJoin(chgParam)

SpecOuterJoin == OuterJoinInit /\ [][OuterJoinNext]_vars

(***************************************************************************)
(* Properties of the RIGHT/FULL OUTER JOIN tasks                           *)
(***************************************************************************)

\* the workers counted in pg_nworkers: registered and not yet gone
CountedWorkers ==
    {w \in Workers : outerjoin.part[w].registered
                     /\ outerjoin.part[w].ndecrements = 0}

TaskDepths == {outerjoin.tasks[k].outer_depth : k \in DOMAIN outerjoin.tasks}

\* C40: with a RIGHT/FULL OUTER JOIN map, the leader creates a right-outer
\* task only after it has read pg_nworkers at most 1, when every worker
\* that registered before that read has left the count; each worker that
\* registered in GpuJoinInnerPreload decrements the counter exactly once,
\* when it finishes; the leader visits the right_outer depths in strictly
\* increasing order, each once, before it reports no more tasks; and no
\* worker creates a right-outer task.
C40_RightOuterTasks ==
    (outerjoin # <<>> /\ gpujoinHasRightOuterJoin(outerjoin.chunks)) =>
       /\ \A k \in DOMAIN outerjoin.tasks :
             /\ outerjoin.tasks[k].seen <= 1
             /\ outerjoin.tasks[k].running = {}
             /\ ~IsParallelWorker(outerjoin.tasks[k].by)
             /\ outerjoin.tasks[k].outer_depth \in RightOuterDepths(outerjoin.chunks)
             /\ k > 1 => outerjoin.tasks[k - 1].outer_depth
                            < outerjoin.tasks[k].outer_depth
       /\ outerjoin.pg_nworkers =
             Cardinality(CountedWorkers)
                + (IF outerjoin.part[1].registered THEN 1 ELSE 0)
       /\ \A w \in Workers :
             /\ outerjoin.part[w].ndecrements <= 1
             /\ outerjoin.part[w].ndecrements = 1 =>
                   outerjoin.part[w].pc \in {"set_latch", "next", "done", "exited"}
             /\ outerjoin.part[w].pc \in {"done", "exited"} =>
                   outerjoin.part[w].ndecrements = 1
       /\ outerjoin.reported => TaskDepths = RightOuterDepths(outerjoin.chunks)

\* C40 happens: the leader had to wait for its two workers, both have
\* decremented the counter, and the leader has created the tasks of two
\* right_outer depths and reported the end
C40_Witness ==
    /\ outerjoin # <<>>
    /\ outerjoin.waited
    /\ outerjoin.reported
    /\ Len(outerjoin.tasks) = 2
    /\ \A w \in Workers : outerjoin.part[w].ndecrements = 1

=============================================================================
